---- MODULE Spec2Model ----
(***************************************************************************)
(* Data-access layer of the knowledge-hub application: the SQLite schema   *)
(* (users, posts, categories, tags, post_categories, post_tags) with its   *)
(* foreign keys, the post/category/tag services of src/lib/db-service.ts   *)
(* and the GET handler of src/app/api/posts/[slug]/route.ts.               *)
(*                                                                         *)
(* Every prepared statement run through better-sqlite3 autocommits: a      *)
(* service call is a sequence of statements, and a statement that violates *)
(* a constraint raises and ends the call, leaving the effects of the       *)
(* statements before it in the store.                                      *)
(***************************************************************************)
EXTENDS Integers, Sequences, FiniteSets, TLC

\* ------------------------------------------------------------------ bounds
\* Logical clock: every service call happens at a later reading than the one
\* before it, so the clock also bounds the number of calls of a run.
MaxClock == 2
\* Number of HTTP requests that may be in flight together.
MaxReqs == 2
\* Length of the display texts handed to the slug generator.
MaxLen == 3
\* Number of edits made in one editor, each of which sets a timer.
MaxEdits == 3
\* Number of PUT requests one editor issues through Save & Exit.
MaxPuts == 2

\* ----------------------------------------------------------- value domains
NULL == "NULL"
NoTime == <<>>

UserIds == {"u1", "u2"}
CatIds == {"c1", "c2"}
TagIds == {"g1"}
\* Identifiers handed out by uuidv4(): never reused, one per create call.
PostIds == 1..(MaxClock + 1)
Slugs == {"hello-world", "second-post"}
Excerpts == {"An excerpt"}
Covers == {"cover.png"}
ReqIds == 1..MaxReqs

Range(s) == {s[i] : i \in 1..Len(s)}

\* Lists of category ids of an input: in either order, and with a repeat.
CatLists == {<<>>, <<"c1">>, <<"c2">>, <<"c1", "c2">>, <<"c2", "c1">>,
             <<"c1", "c1">>}
TagLists == {<<>>, <<"g1">>, <<"g1", "g1">>}

\* --------------------------------------------------------------- the store
VARIABLES users, posts, categories, tags, post_categories, post_tags,
          now, nextId, reqs, last, ui

vars == <<users, posts, categories, tags, post_categories, post_tags,
          now, nextId, reqs, last, ui>>

\* The six tables as one value, so that a statement is a function of it.
DB == [users |-> users, posts |-> posts, categories |-> categories,
       tags |-> tags, post_categories |-> post_categories,
       post_tags |-> post_tags]

Restrict(f, S) == [x \in S |-> f[x]]

\* Outcome of one statement: the store after it and whether it raised.
Ok(db) == [db |-> db, ok |-> TRUE]
Raise(db) == [db |-> db, ok |-> FALSE]

\* ------------------------------------------------------------ SQL statements
\* INSERT INTO posts: PRIMARY KEY id, UNIQUE slug, FOREIGN KEY author_id.
InsertPost(db, id, row) ==
  IF \/ id \in DOMAIN db.posts
     \/ \E q \in DOMAIN db.posts : db.posts[q].slug = row.slug
     \/ row.author_id \notin DOMAIN db.users
  THEN Raise(db)
  ELSE Ok([db EXCEPT !.posts = (id :> row) @@ @])

\* UPDATE posts SET <cols> WHERE id = ?: no row matches an absent id; the
\* UNIQUE constraint on slug rejects the slug of another post.
UpdatePost(db, id, cols) ==
  IF id \notin DOMAIN db.posts THEN Ok(db)
  ELSE IF /\ "slug" \in DOMAIN cols
          /\ \E q \in DOMAIN db.posts \ {id} : db.posts[q].slug = cols.slug
  THEN Raise(db)
  ELSE Ok([db EXCEPT !.posts[id] = cols @@ @])

\* INSERT INTO post_categories: PRIMARY KEY (post_id, category_id) and the
\* two foreign keys, enforced because of PRAGMA foreign_keys = ON.
InsertPostCategory(db, pid, cid) ==
  IF \/ <<pid, cid>> \in db.post_categories
     \/ pid \notin DOMAIN db.posts
     \/ cid \notin DOMAIN db.categories
  THEN Raise(db)
  ELSE Ok([db EXCEPT !.post_categories = @ \cup {<<pid, cid>>}])

InsertPostTag(db, pid, tid) ==
  IF \/ <<pid, tid>> \in db.post_tags
     \/ pid \notin DOMAIN db.posts
     \/ tid \notin DOMAIN db.tags
  THEN Raise(db)
  ELSE Ok([db EXCEPT !.post_tags = @ \cup {<<pid, tid>>}])

\* INSERT INTO users: PRIMARY KEY id, UNIQUE email.
InsertUser(db, id, row) ==
  IF \/ id \in DOMAIN db.users
     \/ \E u \in DOMAIN db.users : db.users[u].email = row.email
  THEN Raise(db)
  ELSE Ok([db EXCEPT !.users = (id :> row) @@ @])

\* As InsertCategory, had the slug column lacked its UNIQUE constraint.
InsertCategoryNameOnly(db, id, row) ==
  IF \/ id \in DOMAIN db.categories
     \/ \E c \in DOMAIN db.categories : db.categories[c].name = row.name
  THEN Raise(db)
  ELSE Ok([db EXCEPT !.categories = (id :> row) @@ @])

\* INSERT INTO categories: PRIMARY KEY id, UNIQUE name, UNIQUE slug.
InsertCategory(db, id, row) ==
  IF \/ id \in DOMAIN db.categories
     \/ \E c \in DOMAIN db.categories : db.categories[c].name = row.name
     \/ \E c \in DOMAIN db.categories : db.categories[c].slug = row.slug
  THEN Raise(db)
  ELSE Ok([db EXCEPT !.categories = (id :> row) @@ @])

\* INSERT INTO tags: PRIMARY KEY id, UNIQUE name, UNIQUE slug.
InsertTag(db, id, row) ==
  IF \/ id \in DOMAIN db.tags
     \/ \E t \in DOMAIN db.tags : db.tags[t].name = row.name
     \/ \E t \in DOMAIN db.tags : db.tags[t].slug = row.slug
  THEN Raise(db)
  ELSE Ok([db EXCEPT !.tags = (id :> row) @@ @])

\* As DeletePostCategories, had the statement been left out (a merge).
DeletePostCategoriesKept(db, pid) == db

\* DELETE FROM post_categories WHERE post_id = ?
DeletePostCategories(db, pid) ==
  [db EXCEPT !.post_categories = {r \in @ : r[1] # pid}]

\* DELETE FROM post_tags WHERE post_id = ?
DeletePostTags(db, pid) ==
  [db EXCEPT !.post_tags = {r \in @ : r[1] # pid}]

\* As DeletePosts, had post_tags.post_id lacked ON DELETE CASCADE.
DeletePostsKeepTags(db, ids) ==
  [db EXCEPT !.posts = Restrict(@, DOMAIN @ \ ids),
             !.post_categories = {r \in @ : r[1] \notin ids}]

\* DELETE FROM posts WHERE id IN ids, with ON DELETE CASCADE of both
\* junction tables on post_id.
DeletePosts(db, ids) ==
  [db EXCEPT !.posts = Restrict(@, DOMAIN @ \ ids),
             !.post_categories = {r \in @ : r[1] \notin ids},
             !.post_tags = {r \in @ : r[1] \notin ids}]

\* As DeleteCategory, had the cascade reached the posts of the category.
DeleteCategoryAndPosts(db, cid) ==
  LET hit == {r[1] : r \in {x \in db.post_categories : x[2] = cid}}
  IN [db EXCEPT !.categories = Restrict(@, DOMAIN @ \ {cid}),
                !.posts = Restrict(@, DOMAIN @ \ hit),
                !.post_categories = {r \in @ : r[1] \notin hit},
                !.post_tags = {r \in @ : r[1] \notin hit}]

\* DELETE FROM categories WHERE id = ?, cascading on category_id.
DeleteCategory(db, cid) ==
  [db EXCEPT !.categories = Restrict(@, DOMAIN @ \ {cid}),
             !.post_categories = {r \in @ : r[2] # cid}]

\* As DeleteTag, had post_tags.tag_id lacked ON DELETE CASCADE and foreign
\* keys not been enforced: the junction rows of the tag stay.
DeleteTagOnly(db, tid) ==
  [db EXCEPT !.tags = Restrict(@, DOMAIN @ \ {tid})]

\* DELETE FROM tags WHERE id = ?, cascading on tag_id.
DeleteTag(db, tid) ==
  [db EXCEPT !.tags = Restrict(@, DOMAIN @ \ {tid}),
             !.post_tags = {r \in @ : r[2] # tid}]

\* As DeleteUser, had posts.author_id lacked ON DELETE CASCADE and foreign
\* keys not been enforced: only the user row goes.
DeleteUserOnly(db, uid) ==
  [db EXCEPT !.users = Restrict(@, DOMAIN @ \ {uid})]

\* DELETE FROM users WHERE id = ?, cascading on posts.author_id and from
\* there on the junction tables.
DeleteUser(db, uid) ==
  LET owned == {p \in DOMAIN db.posts : db.posts[p].author_id = uid}
  IN [DeletePosts(db, owned) EXCEPT !.users = Restrict(@, DOMAIN @ \ {uid})]

\* As InsertCategories, had the loop stopped after the first id.
InsertCategoriesFirstOnly(db, pid, list) ==
  IF list = <<>> THEN Ok(db) ELSE InsertPostCategory(db, pid, Head(list))

\* for (const categoryId of input.categories) catStmt.run(id, categoryId)
RECURSIVE InsertCategories(_, _, _)
InsertCategories(db, pid, list) ==
  IF list = <<>> THEN Ok(db)
  ELSE LET r == InsertPostCategory(db, pid, Head(list))
       IN IF r.ok THEN InsertCategories(r.db, pid, Tail(list)) ELSE r

\* As InsertTags, had the statement been INSERT OR IGNORE: a rejected id is
\* skipped and the loop goes on.
RECURSIVE InsertTagsOrIgnore(_, _, _)
InsertTagsOrIgnore(db, pid, list) ==
  IF list = <<>> THEN Ok(db)
  ELSE InsertTagsOrIgnore(InsertPostTag(db, pid, Head(list)).db, pid, Tail(list))

\* for (const tagId of input.tags) tagStmt.run(id, tagId)
RECURSIVE InsertTags(_, _, _)
InsertTags(db, pid, list) ==
  IF list = <<>> THEN Ok(db)
  ELSE LET r == InsertPostTag(db, pid, Head(list))
       IN IF r.ok THEN InsertTags(r.db, pid, Tail(list)) ELSE r

\* ------------------------------------------------------------------ helpers
WordsPerMinute == 200

\* Word count over the assumed reading speed, rounded up, at least one.
calculateReadingTime(content) ==
  LET words == Len(content)
      minutes == (words + WordsPerMinute - 1) \div WordsPerMinute
  IN IF minutes < 1 THEN 1 ELSE minutes

Has(input, f) == f \in DOMAIN input

\* --------------------------------------------------------------------- text
\* A text is a sequence of characters. The letters, in the two cases.
UpperCase == <<"A", "B", "C", "D", "E", "F", "G", "H", "I", "J", "K", "L", "M",
               "N", "O", "P", "Q", "R", "S", "T", "U", "V", "W", "X", "Y", "Z">>
LowerCase == <<"a", "b", "c", "d", "e", "f", "g", "h", "i", "j", "k", "l", "m",
               "n", "o", "p", "q", "r", "s", "t", "u", "v", "w", "x", "y", "z">>
Digits == {"0", "1", "2", "3", "4", "5", "6", "7", "8", "9"}

toLowerCase(c) ==
  IF \E i \in 1..Len(UpperCase) : UpperCase[i] = c
  THEN LowerCase[CHOOSE i \in 1..Len(UpperCase) : UpperCase[i] = c]
  ELSE c

LowerText(text) == [i \in 1..Len(text) |-> toLowerCase(text[i])]

IsSlugChar(c) == c \in Range(LowerCase) \cup Digits

\* Every run of characters that are not lowercase alphanumerics becomes one
\* hyphen.
RECURSIVE CollapseRuns(_)
CollapseRuns(text) ==
  IF text = <<>> THEN <<>>
  ELSE LET rest == CollapseRuns(Tail(text))
       IN IF IsSlugChar(Head(text)) THEN <<Head(text)>> \o rest
          ELSE IF rest # <<>> /\ Head(rest) = "-" THEN rest
          ELSE <<"-">> \o rest

\* Leading and trailing hyphens are stripped.
RECURSIVE TrimHyphens(_)
TrimHyphens(text) ==
  IF text = <<>> THEN <<>>
  ELSE IF Head(text) = "-" THEN TrimHyphens(Tail(text))
  ELSE IF text[Len(text)] = "-" THEN TrimHyphens(SubSeq(text, 1, Len(text) - 1))
  ELSE text

\* As generateSlug, had the hyphens at the two ends been left in.
generateSlugUntrimmed(text) == CollapseRuns(LowerText(text))

\* The slug of a display text: lowercased, runs of other characters
\* collapsed to a single hyphen, hyphens at the ends trimmed.
generateSlug(text) == TrimHyphens(CollapseRuns(LowerText(text)))

\* The strings the store and the inputs hold, and the characters of each.
Strings ==
  {"Hello World", "Second Post", "hello world", "hello-world",
   "second-post", "An excerpt", "word", "Tech", "tech", "Design", "design",
   "Next", "next", "NEXT", "",
   "Technology", "Programming", "Philosophy", "Personal Growth",
   "JavaScript", "React", "TypeScript", "Next.js", "Node.js", "CSS",
   "Tailwind", "Web Development", "Tutorial", "Best Practices", "Career",
   "Productivity", "Learning", "Thoughts",
   "Building Modern Web Applications with Next.js",
   "The Art of Writing Clean Code", "Understanding TypeScript Generics",
   "The Philosophy of Continuous Learning", "Mastering Tailwind CSS",
   "technology", "programming", "philosophy", "personal-growth",
   "javascript", "react", "typescript", "next-js", "node-js", "css",
   "tailwind", "web-development", "tutorial", "best-practices", "career",
   "productivity", "learning", "thoughts",
   "building-modern-web-applications-with-next-js",
   "the-art-of-writing-clean-code", "understanding-typescript-generics",
   "the-philosophy-of-continuous-learning", "mastering-tailwind-css"}

Chars(s) ==
  CASE s = "Hello World" -> <<"H", "e", "l", "l", "o", " ", "W", "o", "r", "l", "d">>
    [] s = "Second Post" -> <<"S", "e", "c", "o", "n", "d", " ", "P", "o", "s", "t">>
    [] s = "hello world" -> <<"h", "e", "l", "l", "o", " ", "w", "o", "r", "l", "d">>
    [] s = "hello-world" -> <<"h", "e", "l", "l", "o", "-", "w", "o", "r", "l", "d">>
    [] s = "second-post" -> <<"s", "e", "c", "o", "n", "d", "-", "p", "o", "s", "t">>
    [] s = "An excerpt" -> <<"A", "n", " ", "e", "x", "c", "e", "r", "p", "t">>
    [] s = "word" -> <<"w", "o", "r", "d">>
    [] s = "Tech" -> <<"T", "e", "c", "h">>
    [] s = "tech" -> <<"t", "e", "c", "h">>
    [] s = "Design" -> <<"D", "e", "s", "i", "g", "n">>
    [] s = "design" -> <<"d", "e", "s", "i", "g", "n">>
    [] s = "Next" -> <<"N", "e", "x", "t">>
    [] s = "next" -> <<"n", "e", "x", "t">>
    [] s = "NEXT" -> <<"N", "E", "X", "T">>
    [] s = "" -> <<>>
    [] s = "Technology" -> <<"T", "e", "c", "h", "n", "o", "l", "o", "g", "y">>
         [] s = "Programming" -> <<"P", "r", "o", "g", "r", "a", "m", "m",
           "i", "n", "g">>
    [] s = "Philosophy" -> <<"P", "h", "i", "l", "o", "s", "o", "p", "h", "y">>
    [] s = "Personal Growth" ->
         <<"P", "e", "r", "s", "o", "n", "a", "l", " ", "G", "r", "o", "w",
           "t", "h">>
    [] s = "JavaScript" -> <<"J", "a", "v", "a", "S", "c", "r", "i", "p", "t">>
    [] s = "React" -> <<"R", "e", "a", "c", "t">>
    [] s = "TypeScript" -> <<"T", "y", "p", "e", "S", "c", "r", "i", "p", "t">>
    [] s = "Next.js" -> <<"N", "e", "x", "t", ".", "j", "s">>
    [] s = "Node.js" -> <<"N", "o", "d", "e", ".", "j", "s">>
    [] s = "CSS" -> <<"C", "S", "S">>
    [] s = "Tailwind" -> <<"T", "a", "i", "l", "w", "i", "n", "d">>
    [] s = "Web Development" ->
         <<"W", "e", "b", " ", "D", "e", "v", "e", "l", "o", "p", "m", "e",
           "n", "t">>
    [] s = "Tutorial" -> <<"T", "u", "t", "o", "r", "i", "a", "l">>
         [] s = "Best Practices" -> <<"B", "e", "s", "t", " ", "P", "r", "a",
           "c", "t", "i", "c", "e", "s">>
    [] s = "Career" -> <<"C", "a", "r", "e", "e", "r">>
         [] s = "Productivity" -> <<"P", "r", "o", "d", "u", "c", "t", "i",
           "v", "i", "t", "y">>
    [] s = "Learning" -> <<"L", "e", "a", "r", "n", "i", "n", "g">>
    [] s = "Thoughts" -> <<"T", "h", "o", "u", "g", "h", "t", "s">>
    [] s = "Building Modern Web Applications with Next.js" ->
         <<"B", "u", "i", "l", "d", "i", "n", "g", " ", "M", "o", "d", "e",
           "r", "n", " ", "W", "e", "b", " ", "A", "p", "p", "l", "i", "c",
           "a", "t", "i", "o", "n", "s", " ", "w", "i", "t", "h", " ", "N",
           "e", "x", "t", ".", "j", "s">>
    [] s = "The Art of Writing Clean Code" ->
         <<"T", "h", "e", " ", "A", "r", "t", " ", "o", "f", " ", "W", "r",
           "i", "t", "i", "n", "g", " ", "C", "l", "e", "a", "n", " ", "C",
           "o", "d", "e">>
    [] s = "Understanding TypeScript Generics" ->
         <<"U", "n", "d", "e", "r", "s", "t", "a", "n", "d", "i", "n", "g",
           " ", "T", "y", "p", "e", "S", "c", "r", "i", "p", "t", " ", "G",
           "e", "n", "e", "r", "i", "c", "s">>
    [] s = "The Philosophy of Continuous Learning" ->
         <<"T", "h", "e", " ", "P", "h", "i", "l", "o", "s", "o", "p", "h",
           "y", " ", "o", "f", " ", "C", "o", "n", "t", "i", "n", "u", "o",
           "u", "s", " ", "L", "e", "a", "r", "n", "i", "n", "g">>
    [] s = "Mastering Tailwind CSS" ->
         <<"M", "a", "s", "t", "e", "r", "i", "n", "g", " ", "T", "a", "i",
           "l", "w", "i", "n", "d", " ", "C", "S", "S">>
    [] s = "technology" -> <<"t", "e", "c", "h", "n", "o", "l", "o", "g", "y">>
         [] s = "programming" -> <<"p", "r", "o", "g", "r", "a", "m", "m",
           "i", "n", "g">>
    [] s = "philosophy" -> <<"p", "h", "i", "l", "o", "s", "o", "p", "h", "y">>
    [] s = "personal-growth" ->
         <<"p", "e", "r", "s", "o", "n", "a", "l", "-", "g", "r", "o", "w",
           "t", "h">>
    [] s = "javascript" -> <<"j", "a", "v", "a", "s", "c", "r", "i", "p", "t">>
    [] s = "react" -> <<"r", "e", "a", "c", "t">>
    [] s = "typescript" -> <<"t", "y", "p", "e", "s", "c", "r", "i", "p", "t">>
    [] s = "next-js" -> <<"n", "e", "x", "t", "-", "j", "s">>
    [] s = "node-js" -> <<"n", "o", "d", "e", "-", "j", "s">>
    [] s = "css" -> <<"c", "s", "s">>
    [] s = "tailwind" -> <<"t", "a", "i", "l", "w", "i", "n", "d">>
    [] s = "web-development" ->
         <<"w", "e", "b", "-", "d", "e", "v", "e", "l", "o", "p", "m", "e",
           "n", "t">>
    [] s = "tutorial" -> <<"t", "u", "t", "o", "r", "i", "a", "l">>
         [] s = "best-practices" -> <<"b", "e", "s", "t", "-", "p", "r", "a",
           "c", "t", "i", "c", "e", "s">>
    [] s = "career" -> <<"c", "a", "r", "e", "e", "r">>
         [] s = "productivity" -> <<"p", "r", "o", "d", "u", "c", "t", "i",
           "v", "i", "t", "y">>
    [] s = "learning" -> <<"l", "e", "a", "r", "n", "i", "n", "g">>
    [] s = "thoughts" -> <<"t", "h", "o", "u", "g", "h", "t", "s">>
    [] s = "building-modern-web-applications-with-next-js" ->
         <<"b", "u", "i", "l", "d", "i", "n", "g", "-", "m", "o", "d", "e",
           "r", "n", "-", "w", "e", "b", "-", "a", "p", "p", "l", "i", "c",
           "a", "t", "i", "o", "n", "s", "-", "w", "i", "t", "h", "-", "n",
           "e", "x", "t", "-", "j", "s">>
    [] s = "the-art-of-writing-clean-code" ->
         <<"t", "h", "e", "-", "a", "r", "t", "-", "o", "f", "-", "w", "r",
           "i", "t", "i", "n", "g", "-", "c", "l", "e", "a", "n", "-", "c",
           "o", "d", "e">>
    [] s = "understanding-typescript-generics" ->
         <<"u", "n", "d", "e", "r", "s", "t", "a", "n", "d", "i", "n", "g",
           "-", "t", "y", "p", "e", "s", "c", "r", "i", "p", "t", "-", "g",
           "e", "n", "e", "r", "i", "c", "s">>
    [] s = "the-philosophy-of-continuous-learning" ->
         <<"t", "h", "e", "-", "p", "h", "i", "l", "o", "s", "o", "p", "h",
           "y", "-", "o", "f", "-", "c", "o", "n", "t", "i", "n", "u", "o",
           "u", "s", "-", "l", "e", "a", "r", "n", "i", "n", "g">>
    [] s = "mastering-tailwind-css" ->
         <<"m", "a", "s", "t", "e", "r", "i", "n", "g", "-", "t", "a", "i",
           "l", "w", "i", "n", "d", "-", "c", "s", "s">>

\* The string whose characters are `text`.
Str(text) == CHOOSE s \in Strings : Chars(s) = text

\* A content is kept as its words; its text has one space between them.
RECURSIVE ContentText(_)
ContentText(content) ==
  IF content = <<>> THEN <<>>
  ELSE IF Len(content) = 1 THEN Chars(content[1])
  ELSE Chars(content[1]) \o <<" ">> \o ContentText(Tail(content))

\* SQLite's LIKE without an ESCAPE clause: % matches any run of characters,
\* _ any one character, every other character itself in either case.
RECURSIVE Like(_, _)
Like(pattern, text) ==
  IF pattern = <<>> THEN text = <<>>
  ELSE IF Head(pattern) = "%"
       THEN \/ Like(Tail(pattern), text)
            \/ text # <<>> /\ Like(pattern, Tail(text))
  ELSE /\ text # <<>>
       /\ \/ Head(pattern) = "_"
          \/ toLowerCase(Head(pattern)) = toLowerCase(Head(text))
       /\ Like(Tail(pattern), Tail(text))

\* ------------------------------------------------------------------ reads
categoryService_findByPostId(db, pid) ==
  {c \in DOMAIN db.categories : <<pid, c>> \in db.post_categories}

tagService_findByPostId(db, pid) ==
  {t \in DOMAIN db.tags : <<pid, t>> \in db.post_tags}

\* The post row with its categories, tags and author, or undefined.
postService_findById(db, id) ==
  IF id \notin DOMAIN db.posts THEN [found |-> FALSE]
  ELSE [found |-> TRUE, id |-> id, post |-> db.posts[id],
        categories |-> categoryService_findByPostId(db, id),
        tags |-> tagService_findByPostId(db, id),
        author |-> {u \in DOMAIN db.users : u = db.posts[id].author_id}]

postService_findBySlug(db, slug) ==
  IF \A p \in DOMAIN db.posts : db.posts[p].slug # slug THEN [found |-> FALSE]
  ELSE postService_findById(db, CHOOSE p \in DOMAIN db.posts : db.posts[p].slug = slug)

\* ORDER BY created_at DESC over the rows `ids`. Every create call reads a
\* later clock, so no two rows of the store have the same created_at.
RECURSIVE OrderByCreatedDesc(_, _)
OrderByCreatedDesc(db, ids) ==
  IF ids = {} THEN <<>>
  ELSE LET first == CHOOSE p \in ids :
                      \A q \in ids : db.posts[q].created_at <= db.posts[p].created_at
       IN <<first>> \o OrderByCreatedDesc(db, ids \ {first})

\* posts.map(post => ({...post, categories, tags, author}))
Resolve(db, ids) == [i \in 1..Len(ids) |-> postService_findById(db, ids[i])]

\* Result of a query: whether it raised, and the rows it returned.
Rows(value) == [raised |-> FALSE, value |-> value]
QueryRaised == [raised |-> TRUE, value |-> <<>>]

\* WHERE published = 1 AND (title LIKE ? OR content LIKE ? OR excerpt LIKE ?)
\* with `%${query}%` bound three times; NULL LIKE ? is not true.
Searched(db, query) ==
  LET term == <<"%">> \o query \o <<"%">>
  IN {p \in DOMAIN db.posts :
        /\ db.posts[p].published = 1
        /\ \/ Like(term, Chars(db.posts[p].title))
           \/ Like(term, ContentText(db.posts[p].content))
           \/ db.posts[p].excerpt # NULL /\ Like(term, Chars(db.posts[p].excerpt))}

postService_search(db, query) ==
  Rows(Resolve(db, OrderByCreatedDesc(db, Searched(db, query))))

\* As Filtered, had the filters been tested for truth instead of presence:
\* a filter given as false is then left out of the WHERE clause.
FilteredWhenTrue(db, options) ==
  {p \in DOMAIN db.posts :
     /\ (Has(options, "published") /\ options.published)
          => db.posts[p].published = 1
     /\ (Has(options, "featured") /\ options.featured)
          => db.posts[p].featured = 1}

\* WHERE 1=1 [AND published = ?] [AND featured = ?]
Filtered(db, options) ==
  {p \in DOMAIN db.posts :
     /\ Has(options, "published")
          => db.posts[p].published = (IF options.published THEN 1 ELSE 0)
     /\ Has(options, "featured")
          => db.posts[p].featured = (IF options.featured THEN 1 ELSE 0)}

\* LIMIT and OFFSET are appended when the option is truthy, so not for 0.
\* OFFSET without LIMIT is not a statement of SQLite's grammar: db.prepare
\* raises. A negative LIMIT is no limit and a negative OFFSET is 0.
postService_findAll(db, options) ==
  LET ordered == OrderByCreatedDesc(db, Filtered(db, options))
      hasLimit == Has(options, "limit") /\ options.limit # 0
      hasOffset == Has(options, "offset") /\ options.offset # 0
      skip == IF hasOffset /\ options.offset > 0 THEN options.offset ELSE 0
      upto == IF hasLimit /\ options.limit >= 0 /\ skip + options.limit < Len(ordered)
              THEN skip + options.limit ELSE Len(ordered)
  IN IF hasOffset /\ ~hasLimit THEN QueryRaised
     ELSE Rows(Resolve(db, SubSeq(ordered, skip + 1, upto)))

\* ------------------------------------------------------------ post service
\* Result of a service call: the store it leaves, whether it raised, and the
\* value it returned when it did not.
Returned(db, value) == [db |-> db, raised |-> FALSE, value |-> value]
Raised(db) == [db |-> db, raised |-> TRUE, value |-> [found |-> FALSE]]

\* The row that postService.create binds to its INSERT.
NewPostRow(input, clock) ==
  LET isPublished == Has(input, "published") /\ input.published
  IN [title |-> input.title,
      slug |-> input.slug,
      content |-> input.content,
      excerpt |-> IF Has(input, "excerpt") /\ input.excerpt # ""
                  THEN input.excerpt ELSE NULL,
      cover_image |-> IF Has(input, "cover_image") /\ input.cover_image # ""
                      THEN input.cover_image ELSE NULL,
      published |-> IF isPublished THEN 1 ELSE 0,
      featured |-> IF Has(input, "featured") /\ input.featured THEN 1 ELSE 0,
      reading_time |-> IF Has(input, "reading_time") /\ input.reading_time # 0
                       THEN input.reading_time
                       ELSE calculateReadingTime(input.content),
      views |-> 0,
      created_at |-> clock,
      updated_at |-> clock,
      published_at |-> IF isPublished THEN <<clock>> ELSE NoTime,
      author_id |-> input.author_id]

postService_create(db, input, id, clock) ==
  LET s1 == InsertPost(db, id, NewPostRow(input, clock))
      s2 == IF Has(input, "categories")
            THEN InsertCategories(s1.db, id, input.categories)
            ELSE Ok(s1.db)
      s3 == IF Has(input, "tags")
            THEN InsertTags(s2.db, id, input.tags)
            ELSE Ok(s2.db)
  IN IF ~s1.ok THEN Raised(s1.db)
     ELSE IF ~s2.ok THEN Raised(s2.db)
     ELSE IF ~s3.ok THEN Raised(s3.db)
     ELSE Returned(s3.db, postService_findById(s3.db, id))

\* As UpdateColumns, had an absent excerpt been bound as NULL.
UpdateColumnsClearsExcerpt(input, clock) ==
  [f \in {"title", "slug", "content", "cover_image"} \cap DOMAIN input |-> input[f]]
     @@ ("excerpt" :> (IF Has(input, "excerpt") THEN input.excerpt ELSE NULL))
     @@ (IF Has(input, "content")
         THEN "reading_time" :> calculateReadingTime(input.content)
         ELSE <<>>)
     @@ (IF Has(input, "published")
         THEN "published" :> (IF input.published THEN 1 ELSE 0)
         ELSE <<>>)
     @@ (IF Has(input, "published") /\ input.published
         THEN "published_at" :> <<clock>>
         ELSE <<>>)
     @@ (IF Has(input, "featured")
         THEN "featured" :> (IF input.featured THEN 1 ELSE 0)
         ELSE <<>>)
     @@ ("updated_at" :> clock)

\* As UpdateColumns, had the published_at column been left out of the SET
\* clause.
UpdateColumnsNoStamp(input, clock) ==
  LET plain == {f \in {"title", "slug", "content", "excerpt", "cover_image"} :
                  Has(input, f)}
  IN [f \in plain |-> input[f]]
     @@ (IF Has(input, "content")
         THEN "reading_time" :> calculateReadingTime(input.content)
         ELSE <<>>)
     @@ (IF Has(input, "published")
         THEN "published" :> (IF input.published THEN 1 ELSE 0)
         ELSE <<>>)
     @@ (IF Has(input, "featured")
         THEN "featured" :> (IF input.featured THEN 1 ELSE 0)
         ELSE <<>>)
     @@ ("updated_at" :> clock)

\* The columns of the SET clause that postService.update builds.
UpdateColumns(input, clock) ==
  LET plain == {f \in {"title", "slug", "content", "excerpt", "cover_image"} :
                  Has(input, f)}
  IN [f \in plain |-> input[f]]
     @@ (IF Has(input, "content")
         THEN "reading_time" :> calculateReadingTime(input.content)
         ELSE <<>>)
     @@ (IF Has(input, "published")
         THEN "published" :> (IF input.published THEN 1 ELSE 0)
         ELSE <<>>)
     @@ (IF Has(input, "published") /\ input.published
         THEN "published_at" :> <<clock>>
         ELSE <<>>)
     @@ (IF Has(input, "featured")
         THEN "featured" :> (IF input.featured THEN 1 ELSE 0)
         ELSE <<>>)
     @@ ("updated_at" :> clock)

postService_update(db, input, clock) ==
  LET id == input.id
      s1 == UpdatePost(db, id, UpdateColumns(input, clock))
      s2 == IF Has(input, "categories")
            THEN InsertCategories(DeletePostCategories(s1.db, id), id,
                                  input.categories)
            ELSE Ok(s1.db)
      s3 == IF Has(input, "tags")
            THEN InsertTags(DeletePostTags(s2.db, id), id, input.tags)
            ELSE Ok(s2.db)
  IN IF ~s1.ok THEN Raised(s1.db)
     ELSE IF ~s2.ok THEN Raised(s2.db)
     ELSE IF ~s3.ok THEN Raised(s3.db)
     ELSE Returned(s3.db, postService_findById(s3.db, id))

postService_delete(db, id) == DeletePosts(db, {id})

\* As incrementViews, had the statement lacked its WHERE clause.
incrementViewsEveryPost(db, id) ==
  [db EXCEPT !.posts = [p \in DOMAIN @ |-> [@[p] EXCEPT !.views = @ + 1]]]

\* As incrementViews, had it written the count of a first view instead of
\* adding to the stored one.
incrementViewsFirstOnly(db, id) ==
  IF id \notin DOMAIN db.posts THEN db
  ELSE [db EXCEPT !.posts[id].views = 1]

\* UPDATE posts SET views = views + 1 WHERE id = ?
postService_incrementViews(db, id) ==
  IF id \notin DOMAIN db.posts THEN db
  ELSE [db EXCEPT !.posts[id].views = @ + 1]

categoryService_delete(db, id) == DeleteCategory(db, id)

tagService_delete(db, id) == DeleteTag(db, id)

\* ------------------------------------------- user, category and tag creation
\* The rows the create calls bind; the slug is generated from the name.
UserRow(email) == [email |-> email, role |-> "admin"]
CategoryRow(name) == [name |-> name, slug |-> Str(generateSlug(Chars(name)))]
TagRow(name) == [name |-> name, slug |-> Str(generateSlug(Chars(name)))]

userService_create(db, email, id) ==
  LET s1 == InsertUser(db, id, UserRow(email))
  IN IF ~s1.ok THEN Raised(s1.db)
     ELSE Returned(s1.db, [found |-> TRUE, id |-> id, user |-> s1.db.users[id]])

categoryService_create(db, name, id) ==
  LET s1 == InsertCategory(db, id, CategoryRow(name))
  IN IF ~s1.ok THEN Raised(s1.db)
     ELSE Returned(s1.db, [found |-> TRUE, id |-> id,
                           category |-> s1.db.categories[id]])

tagService_create(db, name, id) ==
  LET s1 == InsertTag(db, id, TagRow(name))
  IN IF ~s1.ok THEN Raised(s1.db)
     ELSE Returned(s1.db, [found |-> TRUE, id |-> id, tag |-> s1.db.tags[id]])

\* ------------------------------------------------------------ HTTP handlers
\* What a POST handler answers: the store it leaves, the status and the
\* error text of the body (NULL with the created entity).
Response(db, status, error) == [db |-> db, status |-> status, error |-> error]

\* A test that lets the empty string and the empty content pass.
MissingWhenAbsent(body, f) == ~Has(body, f)

\* `!title`, `!content`, `!name`: the field is absent or empty.
Missing(body, f) == ~Has(body, f) \/ body[f] = (IF f = "content" THEN <<>> ELSE "")

\* POST /api/posts. `fault` stands for a failure of the storage layer itself
\* (disk, lock): the first statement of the call throws.
PostsPOST(db, body, id, clock, fault) ==
  IF Missing(body, "title") \/ Missing(body, "content") \/ Missing(body, "author_id")
  THEN Response(db, 400, "Missing required fields: title, content, author_id")
  ELSE LET passed == {"title", "content", "excerpt", "cover_image", "published",
                      "featured", "author_id", "categories", "tags"}
           input == [f \in passed \cap DOMAIN body |-> body[f]]
                      @@ [slug |-> Str(generateSlug(Chars(body.title)))]
           r == postService_create(db, input, id, clock)
       IN IF fault THEN Response(db, 500, "Failed to create post")
          ELSE IF r.raised THEN Response(r.db, 500, "Failed to create post")
          ELSE Response(r.db, 201, NULL)

\* POST /api/categories
CategoriesPOST(db, body, id, fault) ==
  IF Missing(body, "name") THEN Response(db, 400, "Name is required")
  ELSE LET r == categoryService_create(db, body.name, id)
       IN IF fault THEN Response(db, 500, "Failed to create category")
          ELSE IF r.raised THEN Response(r.db, 500, "Failed to create category")
          ELSE Response(r.db, 201, NULL)

\* POST /api/tags
TagsPOST(db, body, id, fault) ==
  IF Missing(body, "name") THEN Response(db, 400, "Name is required")
  ELSE LET r == tagService_create(db, body.name, id)
       IN IF fault THEN Response(db, 500, "Failed to create tag")
          ELSE IF r.raised THEN Response(r.db, 500, "Failed to create tag")
          ELSE Response(r.db, 201, NULL)

\* ------------------------------------------------------- /api/posts/[slug]
\* What a handler of /api/posts/[slug] answers: the store it leaves, the
\* status, and the id of the post in the body (0: the body carries no post).
SlugResponse(db, status, carried) ==
  [db |-> db, status |-> status, carried |-> carried]

\* GET from `await params` on: the post as found, before the view is counted.
SlugGET(db, slug) ==
  LET post == postService_findBySlug(db, slug)
  IN IF ~post.found THEN SlugResponse(db, 404, 0)
     ELSE SlugResponse(postService_incrementViews(db, post.id), 200, post.id)

\* The input PUT passes to the service: `{ id: post.id, ...body }`, where a
\* field of the body replaces the one written before the spread.
PutInput(postId, body) == body @@ [id |-> postId]

\* PUT from `await request.json()` on. `emptyOk` tells whether the runtime's
\* NextResponse.json serialises an undefined result into an empty 200 body
\* or throws, which the catch block answers with 500.
SlugPUT(db, postId, body, clock, emptyOk) ==
  LET r == postService_update(db, PutInput(postId, body), clock)
  IN IF r.raised THEN SlugResponse(r.db, 500, 0)
     ELSE IF r.value.found THEN SlugResponse(r.db, 200, r.value.id)
     ELSE SlugResponse(r.db, IF emptyOk THEN 200 ELSE 500, 0)

\* DELETE without the `!post` test: reading post.id of undefined throws.
SlugDELETEUntested(db, slug) ==
  LET post == postService_findBySlug(db, slug)
  IN IF ~post.found THEN SlugResponse(db, 500, 0)
     ELSE SlugResponse(postService_delete(db, post.id), 200, 0)

\* DELETE from `await params` on.
SlugDELETE(db, slug) ==
  LET post == postService_findBySlug(db, slug)
  IN IF ~post.found THEN SlugResponse(db, 404, 0)
     ELSE SlugResponse(postService_delete(db, post.id), 200, 0)

\* ------------------------------------------------------------ GET /api/posts
\* parseInt of the decimal strings the callers send.
parseInt(s) ==
  CASE s = "0" -> 0
    [] s = "1" -> 1
    [] s = "2" -> 2
    [] s = "3" -> 3

\* `published === 'true' ? true : published === 'false' ? false : undefined`
\* and `limit ? parseInt(limit) : undefined`: an undefined option is a field
\* the options do not have.
ParsedOptions(params) ==
  [f \in {g \in {"published", "featured"} :
            Has(params, g) /\ params[g] \in {"true", "false"}}
     |-> params[f] = "true"]
  @@ [f \in {g \in {"limit", "offset"} : Has(params, g) /\ params[g] # ""}
        |-> parseInt(params[f])]

\* What GET /api/posts answers: the status and the rows.
Listing(r) ==
  IF r.raised THEN [status |-> 500, value |-> <<>>]
  ELSE [status |-> 200, value |-> r.value]

\* GET /api/posts with the search parameter tested last.
PostsGETFiltersFirst(db, params) ==
  IF ParsedOptions(params) # <<>> \/ ~Has(params, "search") \/ params.search = <<>>
  THEN Listing(postService_findAll(db, ParsedOptions(params)))
  ELSE Listing(postService_search(db, params.search))

\* GET /api/posts: `if (search)` first, else findAll with the parsed options.
PostsGET(db, params) ==
  IF Has(params, "search") /\ params.search # <<>>
  THEN Listing(postService_search(db, params.search))
  ELSE Listing(postService_findAll(db, ParsedOptions(params)))

\* ------------------------------------------------------------------ inputs
\* What the callers of postService.create pass: the title with the slug
\* generated from it, the content and the optional columns; a bare published
\* post, and a draft with every optional column.
Drafts ==
  {[title |-> "Hello World", slug |-> "hello-world", content |-> <<"word">>,
    published |-> TRUE],
   [title |-> "Second Post", slug |-> "second-post",
    content |-> <<"word", "word">>,
    excerpt |-> "An excerpt", cover_image |-> "cover.png",
    published |-> FALSE, featured |-> TRUE, reading_time |-> 5]}

\* The categories / tags part of an input: both absent, or both supplied.
Associations ==
  {<<>>} \cup {[categories |-> c, tags |-> <<"g1">>] : c \in CatLists}
         \cup {[categories |-> <<"c1">>, tags |-> t] : t \in TagLists}

CreateInputs ==
  {d @@ [author_id |-> u] @@ a : d \in Drafts, u \in UserIds, a \in Associations}

\* The reading_time a caller of postService.create may pass: any number.
SuppliedReadingTimes == {-1, 0, 5}

\* Partial inputs of postService.update, without the id: nothing, one field
\* (as togglePublish sends), or the whole form (as the editors send).
SingleFieldPatches ==
  {[title |-> "Second Post"]}
    \cup {[slug |-> "second-post"]}
    \cup {[content |-> <<"word", "word">>]}
    \cup {[excerpt |-> e] : e \in Excerpts}
    \cup {[cover_image |-> i] : i \in Covers}
    \cup {[published |-> b] : b \in BOOLEAN}
    \cup {[featured |-> b] : b \in BOOLEAN}
    \cup {[categories |-> l] : l \in CatLists}
    \cup {[tags |-> l] : l \in TagLists}

FormPatches ==
  {[title |-> "Second Post", slug |-> x, content |-> <<"word", "word">>,
    excerpt |-> "An excerpt", cover_image |-> "cover.png",
    published |-> TRUE, featured |-> TRUE,
    categories |-> <<"c2">>, tags |-> <<>>] : x \in Slugs}

Patches == {<<>>} \cup SingleFieldPatches \cup FormPatches

\* ---------------------------------------------------------- initial store
\* The store after the schema is created and a first user, a second user,
\* two categories, a tag and one published post have been inserted, as the
\* seed script does through the services.
SeedInput ==
  [title |-> "Hello World", slug |-> "hello-world", content |-> <<"word">>,
   excerpt |-> "An excerpt", cover_image |-> "cover.png",
   published |-> TRUE, featured |-> FALSE, author_id |-> "u1",
   categories |-> <<"c1", "c2">>, tags |-> <<"g1">>]

\* The users, categories and tags the seed creates, by id.
SeedEmails == [u1 |-> "admin@knowledgehub.com", u2 |-> "editor@knowledgehub.com"]
SeedCategories == [c1 |-> "Tech", c2 |-> "Design"]
SeedTags == [g1 |-> "Next"]

SeedStore ==
  LET refs == [users |-> [u \in UserIds |-> UserRow(SeedEmails[u])],
               posts |-> <<>>,
               categories |-> [c \in CatIds |-> CategoryRow(SeedCategories[c])],
               tags |-> [t \in TagIds |-> TagRow(SeedTags[t])],
               post_categories |-> {},
               post_tags |-> {}]
  IN postService_create(refs, SeedInput, 1, 0).db

\* A request slot: the handler's position, the slug of the URL, the status
\* answered, the id of the post the slug resolved to, the method, the parsed
\* body, the id of the post the response carries (0: none) and whether the
\* resolved post was gone when the handler went on.
Idle == [pc |-> "idle", slug |-> NULL, status |-> 0, id |-> 0,
         method |-> NULL, body |-> <<>>, carried |-> 0, gone |-> FALSE]

\* No client component is mounted.
NoView == [view |-> "none"]

Init ==
  /\ users = SeedStore.users
  /\ posts = SeedStore.posts
  /\ categories = SeedStore.categories
  /\ tags = SeedStore.tags
  /\ post_categories = SeedStore.post_categories
  /\ post_tags = SeedStore.post_tags
  /\ now = 1
  /\ nextId = 2
  /\ reqs = [r \in ReqIds |-> Idle]
  /\ ui = NoView
  /\ last = [op |-> "seed", id |-> 1, outcome |-> "returned"]

\* ----------------------------------------------------------------- actions
Commit(db) ==
  /\ users' = db.users
  /\ posts' = db.posts
  /\ categories' = db.categories
  /\ tags' = db.tags
  /\ post_categories' = db.post_categories
  /\ post_tags' = db.post_tags

Outcome(r) ==
  IF r.raised THEN "raised"
  ELSE IF r.value.found THEN "returned" ELSE "undefined"

PostCreate ==
  /\ now <= MaxClock
  /\ \E input \in CreateInputs :
       LET r == postService_create(DB, input, nextId, now)
       IN /\ Commit(r.db)
          /\ last' = [op |-> "create", id |-> nextId, outcome |-> Outcome(r)]
  /\ nextId' = nextId + 1
  /\ now' = now + 1
  /\ UNCHANGED <<reqs, ui>>

\* The id is that of a stored post, or one that no post has.
PostUpdate ==
  /\ now <= MaxClock
  /\ \E id \in DOMAIN posts \cup {nextId}, patch \in Patches :
       LET r == postService_update(DB, patch @@ [id |-> id], now)
       IN /\ Commit(r.db)
          /\ last' = [op |-> "update", id |-> id, outcome |-> Outcome(r)]
  /\ now' = now + 1
  /\ UNCHANGED <<nextId, reqs, ui>>

PostDelete ==
  /\ now <= MaxClock
  /\ \E id \in DOMAIN posts \cup {nextId} :
       /\ Commit(postService_delete(DB, id))
       /\ last' = [op |-> "delete", id |-> id, outcome |-> "returned"]
  /\ now' = now + 1
  /\ UNCHANGED <<nextId, reqs, ui>>

IncrementViews ==
  /\ now <= MaxClock
  /\ \E id \in DOMAIN posts \cup {nextId} :
       /\ Commit(postService_incrementViews(DB, id))
       /\ last' = [op |-> "incrementViews", id |-> id, outcome |-> "returned"]
  /\ now' = now + 1
  /\ UNCHANGED <<nextId, reqs, ui>>

CategoryDelete ==
  /\ now <= MaxClock
  /\ \E c \in CatIds :
       /\ Commit(categoryService_delete(DB, c))
       /\ last' = [op |-> "categoryDelete", id |-> c, outcome |-> "returned"]
  /\ now' = now + 1
  /\ UNCHANGED <<nextId, reqs, ui>>

TagDelete ==
  /\ now <= MaxClock
  /\ \E t \in TagIds :
       /\ Commit(tagService_delete(DB, t))
       /\ last' = [op |-> "tagDelete", id |-> t, outcome |-> "returned"]
  /\ now' = now + 1
  /\ UNCHANGED <<nextId, reqs, ui>>

\* A DELETE FROM users statement run against the schema.
UserDelete ==
  /\ now <= MaxClock
  /\ \E u \in UserIds :
       /\ Commit(DeleteUser(DB, u))
       /\ last' = [op |-> "userDelete", id |-> u, outcome |-> "returned"]
  /\ now' = now + 1
  /\ UNCHANGED <<nextId, reqs, ui>>

\* GET /api/posts/[slug]: the handler suspends at `await params`, then runs
\* findBySlug, incrementViews and the response without suspending again.
\* Requests are numbered in the order they arrive, each at a later clock
\* reading.
GetBegin ==
  /\ now <= MaxClock
  /\ \E r \in ReqIds, slug \in Slugs :
       /\ reqs[r].pc = "idle"
       /\ \A q \in ReqIds : q < r => reqs[q].pc # "idle"
       /\ reqs' = [reqs EXCEPT ![r] = [Idle EXCEPT !.pc = "params", !.slug = slug,
                                                   !.method = "GET"]]
  /\ now' = now + 1
  /\ UNCHANGED <<users, posts, categories, tags, post_categories, post_tags,
                 nextId, last, ui>>

GetRun ==
  /\ \E r \in ReqIds :
       /\ reqs[r].pc = "params"
       /\ LET a == SlugGET(DB, reqs[r].slug)
          IN /\ Commit(a.db)
             /\ reqs' = [reqs EXCEPT ![r].pc = "done", ![r].status = a.status,
                                     ![r].id = a.carried]
             /\ last' = [op |-> "GET", id |-> a.carried,
                         outcome |-> IF a.status = 404 THEN "404" ELSE "200"]
  /\ UNCHANGED <<now, nextId, ui>>

Next ==
  \/ PostCreate
  \/ PostUpdate
  \/ PostDelete
  \/ IncrementViews
  \/ CategoryDelete
  \/ TagDelete
  \/ UserDelete

Spec == Init /\ [][Next]_vars

\* Concurrent GET requests against a store whose posts come and go.
NextGet ==
  \/ GetBegin
  \/ GetRun
  \/ PostCreate
  \/ PostDelete

SpecGet == Init /\ [][NextGet]_vars

\* The query strings of postService.search.
SearchTerms ==
  {<<"w", "o", "r", "l", "d">>, <<"W", "O", "R", "D">>, <<"e", "x", "c">>,
   <<"p", "o", "s", "t">>, <<"_">>, <<"o", "_", "w">>, <<"1", "0", "0", "%">>}

\* The options of postService.findAll: each filter absent, true or false;
\* limit and offset absent or a count.
Filters ==
  {f @@ g : f \in {<<>>} \cup {[published |-> b] : b \in BOOLEAN},
            g \in {<<>>} \cup {[featured |-> b] : b \in BOOLEAN}}

Pages ==
  {l @@ o : l \in {<<>>} \cup {[limit |-> n] : n \in 0..2},
            o \in {<<>>} \cup {[offset |-> n] : n \in 0..1}}

FindAllOptions ==
  Filters \cup Pages \cup {[published |-> TRUE] @@ pg : pg \in Pages}

Search ==
  /\ now <= MaxClock
  /\ \E query \in SearchTerms :
       last' = [op |-> "search", id |-> query,
                outcome |-> postService_search(DB, query)]
  /\ now' = now + 1
  /\ UNCHANGED <<users, posts, categories, tags, post_categories, post_tags,
                 nextId, reqs, ui>>

FindAll ==
  /\ now <= MaxClock
  /\ \E options \in FindAllOptions :
       last' = [op |-> "findAll", id |-> options,
                outcome |-> postService_findAll(DB, options)]
  /\ now' = now + 1
  /\ UNCHANGED <<users, posts, categories, tags, post_categories, post_tags,
                 nextId, reqs, ui>>

\* The query parameters of GET /api/posts: the filters and the page as the
\* strings of the URL, with no search, an empty one or a word.
FilterParams ==
  {<<>>, [published |-> "true"], [published |-> "false", featured |-> "true"],
   [published |-> "yes"], [limit |-> "1"], [limit |-> ""],
   [limit |-> "2", offset |-> "1"], [offset |-> "1"]}

GetParams ==
  FilterParams
    \cup {[search |-> q] @@ o : q \in {<<>>, <<"w", "o", "r", "l", "d">>},
                               o \in FilterParams}

PostsGet ==
  /\ now <= MaxClock
  /\ \E params \in GetParams :
       last' = [op |-> "GET /api/posts", id |-> params,
                outcome |-> PostsGET(DB, params)]
  /\ now' = now + 1
  /\ UNCHANGED <<users, posts, categories, tags, post_categories, post_tags,
                 nextId, reqs, ui>>

\* GET /api/posts against a store that creates change.
NextList ==
  \/ PostCreate
  \/ PostsGet

SpecList == Init /\ [][NextList]_vars

\* Queries against a store that creates and updates change.
NextQuery ==
  \/ PostCreate
  \/ PostUpdate
  \/ Search
  \/ FindAll

SpecQuery == Init /\ [][NextQuery]_vars

\* The bodies of POST /api/posts: titles that differ only in case, a title, a
\* content or an author that is absent or empty, an author that is not stored,
\* and the optional fields.
PostBodies ==
  {[title |-> t, content |-> <<"word">>, author_id |-> "u1"] :
     t \in {"Hello World", "hello world", "Second Post", ""}}
    \cup {[title |-> "Second Post", content |-> <<"word">>, author_id |-> "u1",
           published |-> TRUE, categories |-> <<"c1">>, tags |-> <<"g1">>],
          [title |-> "Second Post", content |-> <<"word">>],
          [title |-> "Second Post", author_id |-> "u1"],
          [title |-> "Second Post", content |-> <<>>, author_id |-> "u1"],
          [content |-> <<"word">>, author_id |-> "u1"],
          [title |-> "Second Post", content |-> <<"word">>, author_id |-> "u0"]}

CategoryBodies ==
  {<<>>} \cup {[name |-> n] : n \in {"Tech", "tech", "Next", "NEXT", ""}}
TagBodies == {<<>>} \cup {[name |-> n] : n \in {"Next", "next", "Tech", ""}}
Emails == {"admin@knowledgehub.com", "reader@knowledgehub.com"}

\* uuidv4() for a user, category or tag: an identifier that no row has.
UserUuids == <<"u3", "u4">>
CategoryUuids == <<"c3", "c4">>
TagUuids == <<"g2", "g3">>

HasFresh(uuids, used) == \E i \in 1..Len(uuids) : uuids[i] \notin used

Fresh(uuids, used) ==
  uuids[CHOOSE i \in 1..Len(uuids) :
          /\ uuids[i] \notin used
          /\ \A j \in 1..(i - 1) : uuids[j] \in used]

PostsPost ==
  /\ now <= MaxClock
  /\ \E body \in PostBodies, fault \in BOOLEAN :
       LET r == PostsPOST(DB, body, nextId, now, fault)
       IN /\ Commit(r.db)
          /\ last' = [op |-> "POST /api/posts", id |-> body, outcome |-> r.status]
  /\ nextId' = nextId + 1
  /\ now' = now + 1
  /\ UNCHANGED <<reqs, ui>>

CategoriesPost ==
  /\ now <= MaxClock
  /\ HasFresh(CategoryUuids, DOMAIN categories)
  /\ \E body \in CategoryBodies, fault \in BOOLEAN :
       LET r == CategoriesPOST(DB, body, Fresh(CategoryUuids, DOMAIN categories),
                               fault)
       IN /\ Commit(r.db)
          /\ last' = [op |-> "POST /api/categories", id |-> body,
                      outcome |-> r.status]
  /\ now' = now + 1
  /\ UNCHANGED <<nextId, reqs, ui>>

TagsPost ==
  /\ now <= MaxClock
  /\ HasFresh(TagUuids, DOMAIN tags)
  /\ \E body \in TagBodies, fault \in BOOLEAN :
       LET r == TagsPOST(DB, body, Fresh(TagUuids, DOMAIN tags), fault)
       IN /\ Commit(r.db)
          /\ last' = [op |-> "POST /api/tags", id |-> body, outcome |-> r.status]
  /\ now' = now + 1
  /\ UNCHANGED <<nextId, reqs, ui>>

UserCreate ==
  /\ now <= MaxClock
  /\ HasFresh(UserUuids, DOMAIN users)
  /\ \E email \in Emails :
       LET r == userService_create(DB, email, Fresh(UserUuids, DOMAIN users))
       IN /\ Commit(r.db)
          /\ last' = [op |-> "userCreate", id |-> email, outcome |-> Outcome(r)]
  /\ now' = now + 1
  /\ UNCHANGED <<nextId, reqs, ui>>

\* Creation of every kind of entity, and the update of posts.
NextCatalog ==
  \/ PostsPost
  \/ CategoriesPost
  \/ TagsPost
  \/ UserCreate
  \/ PostUpdate

SpecCatalog == Init /\ [][NextCatalog]_vars

\* The slug generator on its own: a display text is drawn, the generator is
\* applied to it, and then to its own output.
Alphabet == {"a", "B", "7", " ", "-", "_"}

RECURSIVE TextsOfLen(_)
TextsOfLen(n) ==
  IF n = 0 THEN {<<>>}
  ELSE {<<c>> \o t : c \in Alphabet, t \in TextsOfLen(n - 1)}

Texts == UNION {TextsOfLen(n) : n \in 0..MaxLen}

InitSlug ==
  /\ users = SeedStore.users
  /\ posts = SeedStore.posts
  /\ categories = SeedStore.categories
  /\ tags = SeedStore.tags
  /\ post_categories = SeedStore.post_categories
  /\ post_tags = SeedStore.post_tags
  /\ now = 1
  /\ nextId = 2
  /\ reqs = [r \in ReqIds |-> Idle]
  /\ ui = NoView
  /\ \E text \in Texts : last = [op |-> "text", id |-> text, outcome |-> <<>>]

SlugOfText ==
  /\ last.op = "text"
  /\ last' = [op |-> "generateSlug", id |-> last.id,
              outcome |-> generateSlug(last.id)]
  /\ UNCHANGED <<users, posts, categories, tags, post_categories, post_tags,
                 now, nextId, reqs, ui>>

SlugOfSlug ==
  /\ last.op = "generateSlug"
  /\ last' = [op |-> "generateSlug", id |-> last.outcome,
              outcome |-> generateSlug(last.outcome)]
  /\ UNCHANGED <<users, posts, categories, tags, post_categories, post_tags,
                 now, nextId, reqs, ui>>

NextSlug ==
  \/ SlugOfText
  \/ SlugOfSlug

SpecSlug == InitSlug /\ [][NextSlug]_vars

\* ------------------------------------------------------------ admin dashboard
\* The session of the browser, as next-auth holds it.
Sessions == {"authenticated", "unauthenticated"}

\* AdminDashboard just mounted: useSession still loading, no post shown.
Dashboard(session) ==
  [view |-> "dashboard", session |-> session, status |-> "loading",
   route |-> "/admin", fetched |-> FALSE, shown |-> <<>>]

\* useSession settles on the session of the browser.
SessionSettle ==
  /\ ui.view = "dashboard"
  /\ ui.status = "loading"
  /\ ui' = [ui EXCEPT !.status = ui.session]
  /\ UNCHANGED <<users, posts, categories, tags, post_categories, post_tags,
                 now, nextId, reqs, last>>

\* The two effects on `status`: the redirect of an unauthenticated visitor,
\* and fetchPosts, which shows what GET /api/posts returns.
DashboardEffects ==
  /\ ui.view = "dashboard"
  /\ \/ /\ ui.status = "unauthenticated"
        /\ ui.route = "/admin"
        /\ ui' = [ui EXCEPT !.route = "/admin/login"]
     \/ /\ ui.status = "authenticated"
        /\ ~ui.fetched
        /\ LET r == PostsGET(DB, <<>>)
           IN ui' = [ui EXCEPT !.fetched = TRUE,
                               !.shown = [i \in 1..Len(r.value) |-> r.value[i].id]]
  /\ UNCHANGED <<users, posts, categories, tags, post_categories, post_tags,
                 now, nextId, reqs, last>>

\* -------------------------------------------- requests to /api/posts/[slug]
\* The bodies of PUT: nothing, one field, associations, and a body that
\* carries an id of its own.
PutBodies ==
  {<<>>, [title |-> "Second Post"], [categories |-> <<"c2">>, tags |-> <<>>]}
    \cup {[id |-> i, published |-> FALSE] : i \in 1..2}

\* A request arrives: the handler starts and suspends at `await params`.
PutBegin ==
  /\ \E r \in ReqIds, slug \in Slugs, body \in PutBodies :
       /\ reqs[r].pc = "idle"
       /\ \A q \in ReqIds : q < r => reqs[q].pc # "idle"
       /\ reqs' = [reqs EXCEPT ![r] = [Idle EXCEPT !.pc = "put_params",
                                                   !.method = "PUT",
                                                   !.slug = slug,
                                                   !.body = body]]
  /\ UNCHANGED <<users, posts, categories, tags, post_categories, post_tags,
                 now, nextId, last, ui>>

\* findBySlug and the `!post` test; then the handler suspends again at
\* `await request.json()`.
PutResolve ==
  /\ \E r \in ReqIds :
       /\ reqs[r].pc = "put_params"
       /\ LET post == postService_findBySlug(DB, reqs[r].slug)
          IN IF ~post.found
             THEN reqs' = [reqs EXCEPT ![r].pc = "done", ![r].status = 404]
             ELSE reqs' = [reqs EXCEPT ![r].pc = "put_json", ![r].id = post.id]
  /\ UNCHANGED <<users, posts, categories, tags, post_categories, post_tags,
                 now, nextId, last, ui>>

\* postService.update and the response.
PutRun ==
  /\ now <= MaxClock
  /\ \E r \in ReqIds, emptyOk \in BOOLEAN :
       /\ reqs[r].pc = "put_json"
       /\ LET a == SlugPUT(DB, reqs[r].id, reqs[r].body, now, emptyOk)
          IN /\ Commit(a.db)
             /\ reqs' = [reqs EXCEPT ![r].pc = "done", ![r].status = a.status,
                                     ![r].carried = a.carried,
                                     ![r].gone = (reqs[r].id \notin DOMAIN posts)]
  /\ now' = now + 1
  /\ UNCHANGED <<nextId, last, ui>>

DeleteBegin ==
  /\ \E r \in ReqIds, slug \in Slugs :
       /\ reqs[r].pc = "idle"
       /\ \A q \in ReqIds : q < r => reqs[q].pc # "idle"
       /\ reqs' = [reqs EXCEPT ![r] = [Idle EXCEPT !.pc = "delete_params",
                                                   !.method = "DELETE",
                                                   !.slug = slug]]
  /\ UNCHANGED <<users, posts, categories, tags, post_categories, post_tags,
                 now, nextId, last, ui>>

DeleteRun ==
  /\ \E r \in ReqIds :
       /\ reqs[r].pc = "delete_params"
       /\ LET a == SlugDELETE(DB, reqs[r].slug)
          IN /\ Commit(a.db)
             /\ reqs' = [reqs EXCEPT ![r].pc = "done", ![r].status = a.status]
  /\ UNCHANGED <<now, nextId, last, ui>>

\* The second of the posts the seed creates, a draft of the second user.
SecondInput ==
  [title |-> "Second Post", slug |-> "second-post", content |-> <<"word", "word">>,
   published |-> FALSE, author_id |-> "u2",
   categories |-> <<"c1">>, tags |-> <<"g1">>]

SeedStoreOfTwo == postService_create(SeedStore, SecondInput, 2, 0).db

\* The store as seeded with two posts, no request under way, and the
\* dashboard opened by a browser with or without a session.
InitRoute ==
  /\ users = SeedStoreOfTwo.users
  /\ posts = SeedStoreOfTwo.posts
  /\ categories = SeedStoreOfTwo.categories
  /\ tags = SeedStoreOfTwo.tags
  /\ post_categories = SeedStoreOfTwo.post_categories
  /\ post_tags = SeedStoreOfTwo.post_tags
  /\ now = 1
  /\ nextId = 3
  /\ reqs = [r \in ReqIds |-> Idle]
  /\ last = [op |-> "seed", id |-> 1, outcome |-> "returned"]
  /\ \E session \in Sessions : ui = Dashboard(session)

\* PUT and DELETE requests of the browser or of any other client, side by
\* side with the dashboard.
NextRoute ==
  \/ PutBegin
  \/ PutResolve
  \/ PutRun
  \/ DeleteBegin
  \/ DeleteRun
  \/ SessionSettle
  \/ DashboardEffects

SpecRoute == InitRoute /\ [][NextRoute]_vars

\* ----------------------------------------------------------- the seed script
AdminEmail == "admin@knowledgehub.com"

seed_categories ==
  <<"Technology", "Programming", "Design", "Philosophy", "Personal Growth">>

seed_tagNames ==
  <<"JavaScript", "React", "TypeScript", "Next.js", "Node.js", "CSS",
    "Tailwind", "Web Development", "Tutorial", "Best Practices", "Career",
    "Productivity", "Learning", "Thoughts">>

\* The sample posts: categories and tags are positions in createdCategories
\* and createdTags, counted from 1.
seed_posts ==
  <<[title |-> "Building Modern Web Applications with Next.js",
     categories |-> <<1, 2>>, tags |-> <<4, 5, 8>>,
     published |-> TRUE, featured |-> TRUE],
    [title |-> "The Art of Writing Clean Code",
     categories |-> <<2>>, tags |-> <<1, 10>>,
     published |-> TRUE, featured |-> TRUE],
    [title |-> "Understanding TypeScript Generics",
     categories |-> <<2>>, tags |-> <<3, 9>>,
     published |-> TRUE, featured |-> FALSE],
    [title |-> "The Philosophy of Continuous Learning",
     categories |-> <<5, 4>>, tags |-> <<11, 12, 13>>,
     published |-> TRUE, featured |-> FALSE],
    [title |-> "Mastering Tailwind CSS",
     categories |-> <<3, 1>>, tags |-> <<6, 7, 8>>,
     published |-> TRUE, featured |-> FALSE]>>

\* uuidv4() of the rows the seed creates.
SeedUserUuid == "u1"
SeedCategoryUuids == <<"c1", "c2", "c3", "c4", "c5">>
SeedTagUuids ==
  <<"g1", "g2", "g3", "g4", "g5", "g6", "g7", "g8", "g9", "g10", "g11", "g12",
    "g13", "g14">>

\* SELECT * FROM users WHERE email = ?: whether a row comes back.
userService_findByEmail(db, email) ==
  \E u \in DOMAIN db.users : db.users[u].email = email

\* categories.map(cat => categoryService.create(...)), from position i on.
RECURSIVE CreateCategories(_, _)
CreateCategories(db, i) ==
  IF i > Len(seed_categories) THEN Ok(db)
  ELSE LET r == categoryService_create(db, seed_categories[i],
                                       SeedCategoryUuids[i])
       IN IF r.raised THEN Raise(r.db) ELSE CreateCategories(r.db, i + 1)

\* tagNames.map(name => tagService.create(name)), from position i on.
RECURSIVE CreateTags(_, _)
CreateTags(db, i) ==
  IF i > Len(seed_tagNames) THEN Ok(db)
  ELSE LET r == tagService_create(db, seed_tagNames[i], SeedTagUuids[i])
       IN IF r.raised THEN Raise(r.db) ELSE CreateTags(r.db, i + 1)

\* The input the seed passes to postService.create for a sample post.
SeedPostInput(post) ==
  [title |-> post.title, slug |-> Str(generateSlug(Chars(post.title))),
   content |-> <<"word">>, excerpt |-> "An excerpt",
   cover_image |-> "cover.png", published |-> post.published,
   featured |-> post.featured, author_id |-> SeedUserUuid,
   categories |-> [i \in 1..Len(post.categories)
                     |-> SeedCategoryUuids[post.categories[i]]],
   tags |-> [i \in 1..Len(post.tags) |-> SeedTagUuids[post.tags[i]]]]

\* posts.forEach(post => postService.create(...)), from position i on; the
\* posts get the ids id, id + 1, ...
RECURSIVE CreatePosts(_, _, _, _)
CreatePosts(db, i, id, clock) ==
  IF i > Len(seed_posts) THEN Ok(db)
  ELSE LET r == postService_create(db, SeedPostInput(seed_posts[i]),
                                   id + i - 1, clock)
       IN IF r.raised THEN Raise(r.db)
          ELSE CreatePosts(r.db, i + 1, id, clock)

\* What a run of the seed leaves and whether it threw or created anything.
Seeding(db, raised, seeded) ==
  [db |-> db, raised |-> raised, seeded |-> seeded]

\* As seedDatabase, had it not looked for the admin user first.
seedDatabaseUnguarded(db, id, clock) ==
  LET s1 == userService_create(db, AdminEmail, SeedUserUuid)
      s2 == CreateCategories(s1.db, 1)
      s3 == CreateTags(s2.db, 1)
      s4 == CreatePosts(s3.db, 1, id, clock)
  IN IF s1.raised THEN Seeding(s1.db, TRUE, FALSE)
     ELSE IF ~s2.ok THEN Seeding(s2.db, TRUE, TRUE)
     ELSE IF ~s3.ok THEN Seeding(s3.db, TRUE, TRUE)
     ELSE Seeding(s4.db, ~s4.ok, TRUE)

\* seedDatabase: nothing when the admin user is stored, else the admin, the
\* categories, the tags and the posts, in this order, up to the first call
\* that throws.
seedDatabase(db, id, clock) ==
  IF userService_findByEmail(db, AdminEmail) THEN Seeding(db, FALSE, FALSE)
  ELSE LET s1 == userService_create(db, AdminEmail, SeedUserUuid)
           s2 == CreateCategories(s1.db, 1)
           s3 == CreateTags(s2.db, 1)
           s4 == CreatePosts(s3.db, 1, id, clock)
       IN IF s1.raised THEN Seeding(s1.db, TRUE, FALSE)
          ELSE IF ~s2.ok THEN Seeding(s2.db, TRUE, TRUE)
          ELSE IF ~s3.ok THEN Seeding(s3.db, TRUE, TRUE)
          ELSE Seeding(s4.db, ~s4.ok, TRUE)

\* The database after initDatabase: the schema, and no row.
EmptyStore ==
  [users |-> <<>>, posts |-> <<>>, categories |-> <<>>, tags |-> <<>>,
   post_categories |-> {}, post_tags |-> {}]

InitSeed ==
  /\ users = EmptyStore.users
  /\ posts = EmptyStore.posts
  /\ categories = EmptyStore.categories
  /\ tags = EmptyStore.tags
  /\ post_categories = EmptyStore.post_categories
  /\ post_tags = EmptyStore.post_tags
  /\ now = 1
  /\ nextId = 1
  /\ reqs = [r \in ReqIds |-> Idle]
  /\ ui = NoView
  /\ last = [op |-> "initDatabase", id |-> 0, outcome |-> "returned"]

SeedRun ==
  /\ now <= MaxClock
  /\ LET r == seedDatabase(DB, nextId, now)
     IN /\ Commit(r.db)
        /\ nextId' = IF r.seeded THEN nextId + Len(seed_posts) ELSE nextId
        /\ last' = [op |-> "seedDatabase", id |-> 0,
                    outcome |-> IF r.raised THEN "raised"
                                ELSE IF r.seeded THEN "seeded" ELSE "skipped"]
  /\ now' = now + 1
  /\ UNCHANGED <<reqs, ui>>

\* The seed script, run any number of times around the service calls.
NextSeed ==
  \/ SeedRun
  \/ PostUpdate
  \/ PostDelete
  \/ IncrementViews
  \/ CategoryDelete
  \/ TagDelete

SpecSeed == InitSeed /\ [][NextSeed]_vars

\* --------------------------------------------------------- InlinePostEditor
\* The seconds debouncedSave passes to setTimeout.
SaveDelay == 2

\* What the text inputs of the editor may hold.
EditTitles == {"Hello World", "Second Post"}
EditExcerpts == {"An excerpt", ""}

\* The state of a mounted InlinePostEditor: the useState values, the post as
\* last received, saveTimeoutRef.current (0: null), the pending timers with
\* the seconds each has left, and the PUT requests under way. nextTimer
\* numbers the timers; fired, puts and autoPuts count the timer callbacks
\* run, the PUTs issued, and the PUTs issued from a timer callback.
Editor ==
  [view |-> "editor", isEditMode |-> FALSE, hasUnsavedChanges |-> FALSE,
   isSaving |-> FALSE, lastSaved |-> 0,
   title |-> "Hello World", excerpt |-> "An excerpt",
   post |-> [title |-> "Hello World", excerpt |-> "An excerpt"],
   ref |-> 0, timers |-> <<>>, nextTimer |-> 1,
   inflight |-> {}, fired |-> 0, puts |-> 0, autoPuts |-> 0]

\* The values a function created in a render reads: those of that render.
Closure(e) ==
  [hasUnsavedChanges |-> e.hasUnsavedChanges, isEditMode |-> e.isEditMode,
   title |-> e.title, excerpt |-> e.excerpt]

\* debouncedSave is memoised with an empty dependency list: the callback it
\* hands to setTimeout calls the handleAutoSave of the first render.
MountClosure == Closure(Editor)

\* As debouncedSave, without the clearTimeout of the timer set before.
debouncedSaveKeepsTimer(e) ==
  [e EXCEPT !.timers = (e.nextTimer :> SaveDelay) @@ @,
            !.ref = e.nextTimer,
            !.nextTimer = @ + 1]

\* debouncedSave: clear the timer the ref holds, set a new one.
debouncedSave(e) ==
  [e EXCEPT !.timers = (e.nextTimer :> SaveDelay)
                         @@ Restrict(@, DOMAIN @ \ {e.ref}),
            !.ref = e.nextTimer,
            !.nextTimer = @ + 1]

\* handleAutoSave up to its fetch, with the values of `closure`; `then` is
\* what its caller does once it has returned.
handleAutoSave(e, closure, then) ==
  IF ~closure.hasUnsavedChanges \/ ~closure.isEditMode THEN e
  ELSE [e EXCEPT !.isSaving = TRUE,
                 !.puts = @ + 1,
                 !.inflight = @ \cup {[n |-> e.puts + 1,
                                       title |-> closure.title,
                                       excerpt |-> closure.excerpt,
                                       then |-> then]}]

EditorStep(e) ==
  /\ ui.view = "editor"
  /\ ui' = e
  /\ UNCHANGED <<users, posts, categories, tags, post_categories, post_tags,
                 now, nextId, reqs, last>>

\* The Edit button.
EnterEdit ==
  /\ ~ui.isEditMode
  /\ EditorStep([ui EXCEPT !.isEditMode = TRUE])

\* handleTitleChange and handleExcerptChange (handleCoverImageChange is
\* alike): the inputs are rendered in edit mode only.
FieldChange ==
  /\ ui.isEditMode
  /\ ui.nextTimer <= MaxEdits
  /\ \/ \E v \in EditTitles :
          EditorStep(debouncedSave([ui EXCEPT !.title = v,
                                              !.hasUnsavedChanges = TRUE]))
     \/ \E v \in EditExcerpts :
          EditorStep(debouncedSave([ui EXCEPT !.excerpt = v,
                                              !.hasUnsavedChanges = TRUE]))

\* onUpdate of the content editor, which is editable in edit mode only. The
\* callback tests the isEditMode of the render the editor library holds it
\* from: the current one, or the first.
ContentUpdate ==
  /\ ui.isEditMode
  /\ ui.nextTimer <= MaxEdits
  /\ \E seen \in {ui.isEditMode, MountClosure.isEditMode} :
       IF seen
       THEN EditorStep(debouncedSave([ui EXCEPT !.hasUnsavedChanges = TRUE]))
       ELSE EditorStep(ui)

\* handleCancel: the values of the post come back; the timer is left alone.
Cancel ==
  /\ ui.isEditMode
  /\ EditorStep([ui EXCEPT !.title = ui.post.title,
                           !.excerpt = ui.post.excerpt,
                           !.hasUnsavedChanges = FALSE,
                           !.isEditMode = FALSE])

\* handleManualSave (the button is disabled while isSaving): the
\* handleAutoSave of the current render, then setIsEditMode(false).
ManualSave ==
  /\ ui.isEditMode
  /\ ~ui.isSaving
  /\ ui.puts < MaxPuts
  /\ LET e == handleAutoSave(ui, Closure(ui), "exit")
     IN IF e.puts = ui.puts
        THEN EditorStep([e EXCEPT !.isEditMode = FALSE])
        ELSE EditorStep(e)

\* A second passes; a timer that is due fires first.
Tick ==
  /\ ui.view = "editor"
  /\ now <= MaxClock
  /\ \A t \in DOMAIN ui.timers : ui.timers[t] > 0
  /\ ui' = [ui EXCEPT !.timers = [t \in DOMAIN @ |-> @[t] - 1]]
  /\ now' = now + 1
  /\ UNCHANGED <<users, posts, categories, tags, post_categories, post_tags,
                 nextId, reqs, last>>

\* A due timer runs its callback.
TimerFire ==
  /\ ui.view = "editor"
  /\ \E t \in DOMAIN ui.timers :
       /\ ui.timers[t] = 0
       /\ LET e == handleAutoSave(
                     [ui EXCEPT !.timers = Restrict(@, DOMAIN @ \ {t}),
                                !.fired = @ + 1],
                     MountClosure, "none")
          IN EditorStep([e EXCEPT !.autoPuts = @ + (e.puts - ui.puts)])

\* The response to a PUT arrives: the rest of handleAutoSave, and of
\* handleManualSave when it was the caller.
PutResponse ==
  /\ ui.view = "editor"
  /\ \E q \in ui.inflight, ok \in BOOLEAN :
       LET e1 == [ui EXCEPT !.inflight = @ \ {q}, !.isSaving = FALSE]
           e2 == IF ok
                 THEN [e1 EXCEPT !.post = [title |-> q.title,
                                           excerpt |-> q.excerpt],
                                 !.hasUnsavedChanges = FALSE,
                                 !.lastSaved = now]
                 ELSE e1
       IN EditorStep(IF q.then = "exit" THEN [e2 EXCEPT !.isEditMode = FALSE]
                     ELSE e2)

InitEditor ==
  /\ users = SeedStore.users
  /\ posts = SeedStore.posts
  /\ categories = SeedStore.categories
  /\ tags = SeedStore.tags
  /\ post_categories = SeedStore.post_categories
  /\ post_tags = SeedStore.post_tags
  /\ now = 1
  /\ nextId = 2
  /\ reqs = [r \in ReqIds |-> Idle]
  /\ last = [op |-> "seed", id |-> 1, outcome |-> "returned"]
  /\ ui = Editor

NextEditor ==
  \/ EnterEdit
  \/ FieldChange
  \/ ContentUpdate
  \/ Cancel
  \/ ManualSave
  \/ Tick
  \/ TimerFire
  \/ PutResponse

SpecEditor == InitEditor /\ [][NextEditor]_vars

\* ------------------------------------------------------------------ claims
NoRepeat(list) == Cardinality(Range(list)) = Len(list)

\* The ids of a list when the input supplies it, none otherwise.
Supplied(input, f) == IF Has(input, f) THEN Range(input[f]) ELSE {}

\* A list the junction inserts accept: no id repeated, every id stored.
Accepted(input, f, stored) ==
  Has(input, f) => NoRepeat(input[f]) /\ Range(input[f]) \subseteq stored

\* C1: a create whose categories and tags lists are sets of existing ids
\* (in any order) and whose post row is accepted returns, and findById and
\* findBySlug of the new post then give exactly those categories and tags.
C1_CreateReadBack ==
  \A input \in CreateInputs :
    LET r == postService_create(DB, input, nextId, now)
        byId == postService_findById(r.db, nextId)
        bySlug == postService_findBySlug(r.db, input.slug)
    IN (/\ InsertPost(DB, nextId, NewPostRow(input, now)).ok
        /\ Accepted(input, "categories", DOMAIN categories)
        /\ Accepted(input, "tags", DOMAIN tags))
       => /\ ~r.raised
          /\ r.value = byId
          /\ bySlug = byId
          /\ byId.found
          /\ byId.categories = Supplied(input, "categories")
          /\ byId.tags = Supplied(input, "tags")

C1_Witness ==
  /\ last.op = "create"
  /\ last.outcome = "returned"
  /\ last.id \in DOMAIN posts
  /\ postService_findById(DB, last.id).categories = {"c1", "c2"}
  /\ postService_findById(DB, last.id).tags = {"g1"}

\* The update inputs that supply a categories or a tags list.
ListPatches == {p \in Patches : Has(p, "categories") \/ Has(p, "tags")}

\* C2: an update of an existing post that supplies a categories list and
\* returns leaves the post with exactly the categories of the list, whatever
\* it had before, and it returns whenever the list is a set of existing ids;
\* the same for tags.
C2_UpdateReplaces ==
  \A id \in DOMAIN posts, patch \in ListPatches :
    LET r == postService_update(DB, patch @@ [id |-> id], now)
        after == postService_findById(r.db, id)
        rowOk == UpdatePost(DB, id, UpdateColumns(patch, now)).ok
    IN /\ (Has(patch, "categories") /\ ~r.raised)
            => after.categories = Range(patch.categories)
       /\ (Has(patch, "tags") /\ ~r.raised)
            => after.tags = Range(patch.tags)
       /\ (/\ rowOk
           /\ Accepted(patch, "categories", DOMAIN categories)
           /\ Accepted(patch, "tags", DOMAIN tags))
            => ~r.raised /\ r.value = after /\ after.found

C2_Witness ==
  /\ last.op = "update"
  /\ last.outcome = "returned"
  /\ last.id = 1
  /\ DOMAIN categories = CatIds
  /\ postService_findById(DB, 1).categories = {"c2"}
  /\ postService_findById(DB, 1).tags = {"g1"}

\* The columns of a post row.
Columns ==
  {"title", "slug", "content", "excerpt", "cover_image", "published",
   "featured", "reading_time", "views", "created_at", "updated_at",
   "published_at", "author_id"}

\* The columns an update input may write: those of the fields it supplies,
\* reading_time with content, published_at with published, and updated_at.
Writable(patch) ==
  {f \in {"title", "slug", "content", "excerpt", "cover_image", "published",
          "featured"} : Has(patch, f)}
    \cup (IF Has(patch, "content") THEN {"reading_time"} ELSE {})
    \cup (IF Has(patch, "published") THEN {"published_at"} ELSE {})
    \cup {"updated_at"}

RowsOf(junction, pid) == {r \in junction : r[1] = pid}

\* C3: an update (whether it returns or raises) writes only what its input
\* supplies: the columns of the post outside Writable keep their values, its
\* categories stay when categories is absent and its tags when tags is
\* absent, no post row appears or disappears, and every other post with its
\* junction rows, every category, tag and user is unchanged.
C3_UpdateFrame ==
  \A id \in DOMAIN posts \cup {nextId}, patch \in Patches :
    LET r == postService_update(DB, patch @@ [id |-> id], now)
    IN /\ DOMAIN r.db.posts = DOMAIN posts
       /\ id \in DOMAIN posts =>
            /\ \A col \in Columns \ Writable(patch) :
                 r.db.posts[id][col] = posts[id][col]
            /\ ~Has(patch, "categories") =>
                 RowsOf(r.db.post_categories, id) = RowsOf(post_categories, id)
            /\ ~Has(patch, "tags") =>
                 RowsOf(r.db.post_tags, id) = RowsOf(post_tags, id)
       /\ \A q \in DOMAIN posts \ {id} :
            /\ r.db.posts[q] = posts[q]
            /\ RowsOf(r.db.post_categories, q) = RowsOf(post_categories, q)
            /\ RowsOf(r.db.post_tags, q) = RowsOf(post_tags, q)
       /\ r.db.users = users
       /\ r.db.categories = categories
       /\ r.db.tags = tags

\* The seeded post after an update that supplied only a new title, next to
\* a second post.
C3_Witness ==
  /\ last.op = "update"
  /\ last.outcome = "returned"
  /\ last.id = 1
  /\ DOMAIN posts = {1, 2}
  /\ posts[1].title = "Second Post"
  /\ posts[1].updated_at > posts[1].created_at
  /\ [posts[1] EXCEPT !.title = "Hello World", !.updated_at = 0]
       = SeedStore.posts[1]
  /\ postService_findById(DB, 1).categories = {"c1", "c2"}

\* C4 (as claimed): an update whose id matches no post returns undefined
\* without raising, for every partial input, and leaves the store unchanged.
C4_NotFoundReturns ==
  \A id \in PostIds \ DOMAIN posts, patch \in Patches :
    LET r == postService_update(DB, patch @@ [id |-> id], now)
    IN /\ ~r.raised
       /\ ~r.value.found
       /\ r.db = DB

\* C5 (as claimed): a create or update that raises leaves the store as it
\* was before the call.
C5_RaiseLeavesStore ==
  /\ \A input \in CreateInputs :
       LET r == postService_create(DB, input, nextId, now)
       IN r.raised => r.db = DB
  /\ \A id \in DOMAIN posts, patch \in Patches :
       LET r == postService_update(DB, patch @@ [id |-> id], now)
       IN r.raised => r.db = DB

\* The ids of a list that precede its first repeated or unstored id.
AcceptedPrefix(list, stored) ==
  LET good(i) == list[i] \in stored /\ \A j \in 1..(i - 1) : list[j] # list[i]
      n == CHOOSE k \in 0..Len(list) :
             /\ \A i \in 1..k : good(i)
             /\ k < Len(list) => ~good(k + 1)
  IN {list[i] : i \in 1..n}

\* What a call that got past its post row leaves in a junction table: the
\* rows of the other posts, and for this post the accepted prefix of the
\* supplied list, or its former rows when the list is absent.
JunctionAfter(junction, pid, input, f, stored) ==
  IF Has(input, f)
  THEN {r \in junction : r[1] # pid}
         \cup {<<pid, x>> : x \in AcceptedPrefix(input[f], stored)}
  ELSE junction

\* The store a call leaves once its post row is written as `rows`: the
\* categories up to the first rejected id, and the tags only if every
\* category was accepted.
StatementsInEffect(rows, pid, input) ==
  [users |-> users, posts |-> rows, categories |-> categories, tags |-> tags,
   post_categories |->
     JunctionAfter(post_categories, pid, input, "categories", DOMAIN categories),
   post_tags |->
     IF Accepted(input, "categories", DOMAIN categories)
     THEN JunctionAfter(post_tags, pid, input, "tags", DOMAIN tags)
     ELSE post_tags]

\* C5 (amended): junction rows are written statement by statement after the
\* post row. A create or update raises exactly when its post row, or an id
\* of its categories or tags list, is rejected; a rejected post row leaves
\* the store as it was; a rejected id leaves the post row written, the
\* categories (tags) of the post equal to the ids before the rejected one,
\* the tags untouched when the categories failed, and all else unchanged.
C5_RaiseKeepsStatements ==
  /\ \A input \in CreateInputs :
       LET r == postService_create(DB, input, nextId, now)
           row == NewPostRow(input, now)
           rowOk == InsertPost(DB, nextId, row).ok
       IN /\ r.raised <=> ~(/\ rowOk
                            /\ Accepted(input, "categories", DOMAIN categories)
                            /\ Accepted(input, "tags", DOMAIN tags))
          /\ ~rowOk => r.db = DB
          /\ rowOk => r.db = StatementsInEffect((nextId :> row) @@ posts,
                                                nextId, input)
  /\ \A id \in DOMAIN posts, patch \in Patches :
       LET r == postService_update(DB, patch @@ [id |-> id], now)
           cols == UpdateColumns(patch, now)
           rowOk == UpdatePost(DB, id, cols).ok
       IN /\ r.raised <=> ~(/\ rowOk
                            /\ Accepted(patch, "categories", DOMAIN categories)
                            /\ Accepted(patch, "tags", DOMAIN tags))
          /\ ~rowOk => r.db = DB
          /\ rowOk => r.db = StatementsInEffect(
                                [posts EXCEPT ![id] = cols @@ @], id, patch)

\* A create raised on a repeated category id and left its post with the
\* first one.
C5_Witness ==
  /\ last.op = "create"
  /\ last.outcome = "raised"
  /\ last.id \in DOMAIN posts
  /\ RowsOf(post_categories, last.id) = {<<last.id, "c1">>}
  /\ RowsOf(post_tags, last.id) = {}

\* C6: deleting a user row removes the posts of that user with their
\* junction rows, and nothing else: the posts of other users with their
\* junction rows, and all categories and tags, remain.
C6_UserDeleteCascades ==
  \A u \in UserIds :
    LET d == DeleteUser(DB, u)
        kept == {p \in DOMAIN posts : posts[p].author_id # u}
    IN /\ DOMAIN d.users = DOMAIN users \ {u}
       /\ d.posts = Restrict(posts, kept)
       /\ d.post_categories = {r \in post_categories : r[1] \in kept}
       /\ d.post_tags = {r \in post_tags : r[1] \in kept}
       /\ d.categories = categories
       /\ d.tags = tags

\* The first user was deleted: the seeded post and its junction rows went,
\* the post of the second user stayed.
C6_Witness ==
  /\ last.op = "userDelete"
  /\ last.id = "u1"
  /\ DOMAIN posts = {2}
  /\ posts[2].author_id = "u2"
  /\ RowsOf(post_categories, 1) = {}
  /\ RowsOf(post_tags, 1) = {}
  /\ RowsOf(post_categories, 2) # {}

\* C7: deleting a category (a tag) removes the junction rows that reference
\* it and nothing else: every post row stays as it was, and each post keeps
\* its former categories and tags without the deleted one.
C7_CategoryTagDeleteFrame ==
  /\ \A c \in CatIds :
       LET d == categoryService_delete(DB, c)
       IN /\ d.posts = posts
          /\ d.post_categories = {r \in post_categories : r[2] # c}
          /\ d.post_tags = post_tags
          /\ d.tags = tags
          /\ d.users = users
          /\ DOMAIN d.categories = DOMAIN categories \ {c}
          /\ \A p \in DOMAIN posts :
               /\ categoryService_findByPostId(d, p)
                    = categoryService_findByPostId(DB, p) \ {c}
               /\ tagService_findByPostId(d, p) = tagService_findByPostId(DB, p)
  /\ \A t \in TagIds :
       LET d == tagService_delete(DB, t)
       IN /\ d.posts = posts
          /\ d.post_tags = {r \in post_tags : r[2] # t}
          /\ d.post_categories = post_categories
          /\ d.categories = categories
          /\ d.users = users
          /\ DOMAIN d.tags = DOMAIN tags \ {t}
          /\ \A p \in DOMAIN posts :
               /\ tagService_findByPostId(d, p)
                    = tagService_findByPostId(DB, p) \ {t}
               /\ categoryService_findByPostId(d, p)
                    = categoryService_findByPostId(DB, p)

\* A category of the seeded post was deleted: the post is there with its
\* other category and its tag.
C7_Witness ==
  /\ last.op = "categoryDelete"
  /\ last.id = "c1"
  /\ "c1" \notin DOMAIN categories
  /\ 1 \in DOMAIN posts
  /\ posts[1] = SeedStore.posts[1]
  /\ postService_findById(DB, 1).categories = {"c2"}
  /\ postService_findById(DB, 1).tags = {"g1"}

\* C8: postService.delete removes the post row and its junction rows and
\* nothing else, and findById of the id is then undefined.
C8_PostDeleteFrame ==
  \A id \in PostIds :
    LET d == postService_delete(DB, id)
        kept == DOMAIN posts \ {id}
    IN /\ d.posts = Restrict(posts, kept)
       /\ d.post_categories = {r \in post_categories : r[1] # id}
       /\ d.post_tags = {r \in post_tags : r[1] # id}
       /\ d.users = users
       /\ d.categories = categories
       /\ d.tags = tags
       /\ ~postService_findById(d, id).found

\* The seeded post was deleted next to a second post that kept its rows.
C8_Witness ==
  /\ last.op = "delete"
  /\ last.id = 1
  /\ DOMAIN posts = {2}
  /\ RowsOf(post_categories, 1) = {}
  /\ RowsOf(post_tags, 1) = {}
  /\ RowsOf(post_categories, 2) # {}
  /\ RowsOf(post_tags, 2) # {}
  /\ DOMAIN categories = CatIds
  /\ DOMAIN tags = TagIds

\* Number of sequential incrementViews calls looked at from each state.
MaxCalls == 3

\* The store after n sequential incrementViews calls on one post.
RECURSIVE IncrementedTimes(_, _, _)
IncrementedTimes(db, id, n) ==
  IF n = 0 THEN db
  ELSE IncrementedTimes(postService_incrementViews(db, id), id, n - 1)

\* C9: n sequential incrementViews calls on an existing post raise its views
\* by exactly n and change no other column and no other row.
C9_IncrementViewsAddsN ==
  \A id \in DOMAIN posts, n \in 0..MaxCalls :
    IncrementedTimes(DB, id, n)
      = [DB EXCEPT !.posts[id].views = posts[id].views + n]

\* Two sequential calls on the seeded post.
C9_Witness ==
  /\ last.op = "incrementViews"
  /\ last.id = 1
  /\ 1 \in DOMAIN posts
  /\ posts[1].views = 2
  /\ [posts[1] EXCEPT !.views = 0] = SeedStore.posts[1]

\* The GET requests that were answered 200 with post p.
Served(p) == {r \in ReqIds : reqs[r].status = 200 /\ reqs[r].id = p}

\* C10: whatever the interleaving of the GET requests, the stored views of a
\* post equal the number of GET requests answered with it: each successful
\* GET adds exactly one and no increment is lost.
C10_ViewsCountGets ==
  \A p \in DOMAIN posts : posts[p].views = Cardinality(Served(p))

\* Two GET requests for the same slug were both past `await params` before
\* either ran; both are answered and the post has two views.
C10_Witness ==
  /\ \A r \in {1, 2} : reqs[r].pc = "done" /\ reqs[r].status = 200 /\ reqs[r].id = 1
  /\ posts[1].views = 2

\* Only lowercase alphanumerics and single hyphens, none at either end.
WellFormedSlug(slug) ==
  /\ \A i \in 1..Len(slug) : IsSlugChar(slug[i]) \/ slug[i] = "-"
  /\ \A i \in 1..(Len(slug) - 1) : ~(slug[i] = "-" /\ slug[i + 1] = "-")
  /\ slug # <<>> => slug[1] # "-" /\ slug[Len(slug)] # "-"

IdsOf(value) == [i \in 1..Len(value) |-> value[i].id]

\* `query` occurs in `text` as a run of characters, whatever their case.
Contains(text, query) ==
  \E i \in 0..(Len(text) - Len(query)) :
    \A j \in 1..Len(query) : toLowerCase(text[i + j]) = toLowerCase(query[j])

\* C11 (as claimed): for every query string, search returns exactly the
\* published posts that contain the string, whatever the case of its
\* letters, as a literal run of characters of title, content or excerpt.
C11_SearchLiteralSubstring ==
  \A query \in SearchTerms :
    LET r == postService_search(DB, query)
    IN /\ ~r.raised
       /\ Range(IdsOf(r.value))
            = {p \in DOMAIN posts :
                 /\ posts[p].published = 1
                 /\ \/ Contains(Chars(posts[p].title), query)
                    \/ Contains(ContentText(posts[p].content), query)
                    \/ /\ posts[p].excerpt # NULL
                       /\ Contains(Chars(posts[p].excerpt), query)}

\* C12: findAll with filters only returns, without raising and each post
\* once, exactly the posts that satisfy every filter supplied: an absent
\* filter admits both values of the flag, true selects the posts whose flag
\* is 1 and false those whose flag is 0.
C12_FindAllFilters ==
  \A options \in Filters :
    LET r == postService_findAll(DB, options)
        wanted(flag, f) == ~Has(options, f) \/ (flag = 1) = options[f]
    IN /\ ~r.raised
       /\ Cardinality(Range(IdsOf(r.value))) = Len(r.value)
       /\ Range(IdsOf(r.value))
            = {p \in DOMAIN posts : /\ wanted(posts[p].published, "published")
                                    /\ wanted(posts[p].featured, "featured")}
       /\ \A i \in 1..Len(r.value) : r.value[i] = postService_findById(DB, r.value[i].id)

\* findAll was asked for the unpublished posts of a store that holds a
\* published and an unpublished post, and returned the unpublished one.
C12_Witness ==
  /\ last.op = "findAll"
  /\ last.id = [published |-> FALSE]
  /\ ~last.outcome.raised
  /\ IdsOf(last.outcome.value) = <<2>>
  /\ DOMAIN posts = {1, 2}
  /\ posts[1].published = 1
  /\ posts[2].published = 0

\* C13 (as claimed): for every limit and offset, each given or not, findAll
\* returns without raising the posts in non-increasing created_at order, and
\* exactly the part of the ordered, filtered list that starts after `offset`
\* posts (0 when absent) and holds at most `limit` posts (all when absent).
C13_FindAllOrderedSlice ==
  \A options \in FindAllOptions :
    LET r == postService_findAll(DB, options)
        list == OrderByCreatedDesc(DB, Filtered(DB, options))
        from == IF Has(options, "offset") THEN options.offset ELSE 0
        upto == IF Has(options, "limit") /\ from + options.limit < Len(list)
                THEN from + options.limit ELSE Len(list)
    IN /\ ~r.raised
       /\ IdsOf(r.value) = SubSeq(list, from + 1, upto)
       /\ \A i \in 1..(Len(r.value) - 1) :
            r.value[i].post.created_at >= r.value[i + 1].post.created_at

\* C14: in every state reached by creates and updates a post whose published
\* flag is set has a published_at; a post that appears unpublished appears
\* without one, and a post without one gets one only in an update of that
\* post that leaves it published.
C14_PublishedHasStamp ==
  /\ [](\A p \in DOMAIN posts :
          posts[p].published = 1 => posts[p].published_at # NoTime)
  /\ [][\A p \in DOMAIN posts' :
          /\ (p \notin DOMAIN posts /\ posts'[p].published = 0)
               => posts'[p].published_at = NoTime
          /\ (/\ p \in DOMAIN posts
              /\ posts[p].published_at = NoTime
              /\ posts'[p].published_at # NoTime)
               => /\ last'.op = "update"
                  /\ last'.id = p
                  /\ posts'[p].published = 1]_vars

\* A post created unpublished was published by an update, next to the
\* seeded post that was published when created.
C14_Witness ==
  /\ last.op = "update"
  /\ last.id = 2
  /\ DOMAIN posts = {1, 2}
  /\ posts[1].published = 1
  /\ posts[1].published_at = <<posts[1].created_at>>
  /\ posts[2].published = 1
  /\ posts[2].published_at = <<posts[2].updated_at>>
  /\ posts[2].updated_at > posts[2].created_at

\* C15 (as claimed): an update with published = true that writes the row of
\* an unpublished post stamps published_at with the time of the call, and
\* one that writes the row of a post already published leaves its
\* published_at as it was.
C15_StampOnFirstPublish ==
  \A id \in DOMAIN posts, patch \in {p \in Patches : Has(p, "published")} :
    LET r == postService_update(DB, patch @@ [id |-> id], now)
        rowOk == UpdatePost(DB, id, UpdateColumns(patch, now)).ok
    IN (rowOk /\ patch.published)
         => r.db.posts[id].published_at
              = (IF posts[id].published = 0 THEN <<now>> ELSE posts[id].published_at)

\* C16 (as claimed): every stored post has a positive reading_time; every
\* create input, with a reading_time supplied or without, binds a positive
\* reading_time to its row; and an update that supplies content and writes
\* the row leaves reading_time equal to the estimate for the new content.
C16_ReadingTimePositive ==
  /\ \A p \in DOMAIN posts : posts[p].reading_time \in Nat \ {0}
  /\ \A input \in CreateInputs :
       /\ NewPostRow(input, now).reading_time \in Nat \ {0}
       /\ \A minutes \in SuppliedReadingTimes :
            NewPostRow([reading_time |-> minutes] @@ input, now).reading_time
              \in Nat \ {0}
  /\ \A id \in DOMAIN posts, patch \in {p \in Patches : Has(p, "content")} :
       LET r == postService_update(DB, patch @@ [id |-> id], now)
       IN UpdatePost(DB, id, UpdateColumns(patch, now)).ok
            => r.db.posts[id].reading_time = calculateReadingTime(patch.content)

\* No two rows of a table have the same value in a column.
Unique(table, col) ==
  \A a \in DOMAIN table, b \in DOMAIN table :
    table[a][col] = table[b][col] => a = b

Taken(table, col, value) == \E a \in DOMAIN table : table[a][col] = value

\* C17: in every reachable state the slugs of the posts, the names and the
\* slugs of the categories and of the tags, and the emails of the users are
\* pairwise different; a create whose slug, name or email is stored, and an
\* update to the slug of another post, raises and leaves the store as it was.
C17_UniqueColumns ==
  /\ Unique(posts, "slug")
  /\ Unique(categories, "name") /\ Unique(categories, "slug")
  /\ Unique(tags, "name") /\ Unique(tags, "slug")
  /\ Unique(users, "email")
  /\ \A input \in CreateInputs :
       LET r == postService_create(DB, input, nextId, now)
       IN Taken(posts, "slug", input.slug) => r.raised /\ r.db = DB
  /\ \A id \in DOMAIN posts, slug \in Slugs :
       LET r == postService_update(DB, [id |-> id, slug |-> slug], now)
       IN Taken(Restrict(posts, DOMAIN posts \ {id}), "slug", slug)
            => r.raised /\ r.db = DB
  /\ \A body \in CategoryBodies \ {<<>>} :
       LET r == categoryService_create(DB, body.name, Fresh(CategoryUuids, DOMAIN categories))
           row == CategoryRow(body.name)
       IN (Taken(categories, "name", row.name) \/ Taken(categories, "slug", row.slug))
            => r.raised /\ r.db = DB
  /\ \A body \in TagBodies \ {<<>>} :
       LET r == tagService_create(DB, body.name, Fresh(TagUuids, DOMAIN tags))
           row == TagRow(body.name)
       IN (Taken(tags, "name", row.name) \/ Taken(tags, "slug", row.slug))
            => r.raised /\ r.db = DB
  /\ \A email \in Emails :
       LET r == userService_create(DB, email, Fresh(UserUuids, DOMAIN users))
       IN Taken(users, "email", email) => r.raised /\ r.db = DB

\* The category "Next" was created, and then a category "NEXT", whose name
\* is new and whose slug is that of "Next", was refused.
C17_Witness ==
  /\ last.op = "POST /api/categories"
  /\ last.id = [name |-> "NEXT"]
  /\ last.outcome = 500
  /\ DOMAIN categories = CatIds \cup {"c3"}
  /\ categories["c3"] = [name |-> "Next", slug |-> "next"]
  /\ categoryService_create(DB, "NEXT", "c4").raised
  /\ Unique(categories, "slug")

\* C18 (as claimed): in every reachable state the slug of each post is the
\* slug generator's output for its title, and the slug of each category and
\* tag the output for its name.
C18_SlugFromTitle ==
  /\ \A p \in DOMAIN posts :
       Chars(posts[p].slug) = generateSlug(Chars(posts[p].title))
  /\ \A c \in DOMAIN categories :
       Chars(categories[c].slug) = generateSlug(Chars(categories[c].name))
  /\ \A t \in DOMAIN tags :
       Chars(tags[t].slug) = generateSlug(Chars(tags[t].name))

\* C20 (as claimed): a POST that creates a post, category or tag whose slug
\* or name is stored is answered otherwise than a POST that met a failure of
\* the storage layer, and not as a success; the store is left as it was; a
\* user whose email is stored is refused with the store left as it was.
C20_ConflictDistinguished ==
  /\ \A body \in {b \in PostBodies : ~Missing(b, "title") /\ ~Missing(b, "author_id")} :
       LET r == PostsPOST(DB, body, nextId, now, FALSE)
           f == PostsPOST(DB, body, nextId, now, TRUE)
       IN Taken(posts, "slug", Str(generateSlug(Chars(body.title))))
            => /\ r.status # 201
               /\ <<r.status, r.error>> # <<f.status, f.error>>
               /\ r.db = DB
  /\ \A body \in CategoryBodies \ {<<>>} :
       LET id == Fresh(CategoryUuids, DOMAIN categories)
           r == CategoriesPOST(DB, body, id, FALSE)
           f == CategoriesPOST(DB, body, id, TRUE)
           row == CategoryRow(body.name)
       IN (Taken(categories, "name", row.name) \/ Taken(categories, "slug", row.slug))
            => /\ r.status # 201
               /\ <<r.status, r.error>> # <<f.status, f.error>>
               /\ r.db = DB
  /\ \A body \in TagBodies \ {<<>>} :
       LET id == Fresh(TagUuids, DOMAIN tags)
           r == TagsPOST(DB, body, id, FALSE)
           f == TagsPOST(DB, body, id, TRUE)
           row == TagRow(body.name)
       IN (Taken(tags, "name", row.name) \/ Taken(tags, "slug", row.slug))
            => /\ r.status # 201
               /\ <<r.status, r.error>> # <<f.status, f.error>>
               /\ r.db = DB
  /\ \A email \in Emails :
       LET r == userService_create(DB, email, Fresh(UserUuids, DOMAIN users))
       IN Taken(users, "email", email) => r.raised /\ r.db = DB

\* C21: a POST /api/posts whose body misses title, content or author_id, and
\* a POST /api/categories or /api/tags whose body misses name, answers 400
\* and leaves every table as it was, whether or not the storage layer would
\* have failed: the handler returns before it reaches the service.
C21_InvalidCreateRejected ==
  /\ \A body \in PostBodies, fault \in BOOLEAN :
       (\E f \in {"title", "content", "author_id"} :
          \/ f \notin DOMAIN body
          \/ body[f] = (IF f = "content" THEN <<>> ELSE ""))
       => LET r == PostsPOST(DB, body, nextId, now, fault)
          IN r.status = 400 /\ r.db = DB
  /\ \A body \in CategoryBodies, fault \in BOOLEAN :
       ("name" \notin DOMAIN body \/ body.name = "")
       => LET r == CategoriesPOST(DB, body, Fresh(CategoryUuids, {}), fault)
          IN r.status = 400 /\ r.db = DB
  /\ \A body \in TagBodies, fault \in BOOLEAN :
       ("name" \notin DOMAIN body \/ body.name = "")
       => LET r == TagsPOST(DB, body, Fresh(TagUuids, {}), fault)
          IN r.status = 400 /\ r.db = DB

\* A post body with an empty title has been answered 400 and the store still
\* is the seeded one.
C21_Witness ==
  /\ last.op = "POST /api/posts"
  /\ last.outcome = 400
  /\ "title" \in DOMAIN last.id
  /\ last.id.title = ""
  /\ DB = SeedStore
\* C22: GET, PUT and DELETE on a slug that resolves to no post answer 404
\* and leave the store as it was: no view is counted and no row is
\* inserted, updated or deleted.
C22_UnresolvedSlugAnswers404 ==
  /\ [](\A slug \in Slugs :
          ~postService_findBySlug(DB, slug).found
          => /\ SlugGET(DB, slug).status = 404
             /\ SlugGET(DB, slug).db = DB
             /\ SlugDELETE(DB, slug).status = 404
             /\ SlugDELETE(DB, slug).db = DB)
  /\ [][\A r \in ReqIds :
          (/\ reqs[r].pc \in {"put_params", "delete_params"}
           /\ reqs'[r].pc # reqs[r].pc
           /\ ~postService_findBySlug(DB, reqs[r].slug).found)
          => /\ reqs'[r].pc = "done"
             /\ reqs'[r].status = 404
             /\ DB' = DB]_vars

\* A DELETE has removed a post and a PUT on the slug of that post has been
\* answered 404.
C22_Witness ==
  \E r, q \in ReqIds :
    /\ reqs[q].method = "DELETE" /\ reqs[q].pc = "done" /\ reqs[q].status = 200
    /\ reqs[r].method = "PUT" /\ reqs[r].pc = "done" /\ reqs[r].status = 404
    /\ reqs[r].slug = reqs[q].slug

\* The columns of a post that a management call writes: all but the views.
Managed(rows) == [p \in DOMAIN rows |-> [rows[p] EXCEPT !.views = 0]]

\* C23 (as claimed): a post is created, updated or deleted through the HTTP
\* API only for a caller whose session is authenticated, and the dashboard
\* fetches and shows posts only while its session status is authenticated; an
\* unauthenticated visitor is sent to the login page.
C23_AuthenticationGates ==
  /\ [](/\ ui.fetched => ui.status = "authenticated"
        /\ ui.shown # <<>> => ui.status = "authenticated"
        /\ ui.route = "/admin/login" => ui.status = "unauthenticated"
        /\ \A body \in PostBodies :
             ui.session # "authenticated"
             => PostsPOST(DB, body, nextId, now, FALSE).db = DB)
  /\ [][/\ (\/ Managed(posts') # Managed(posts)
            \/ post_categories' # post_categories
            \/ post_tags' # post_tags)
           => ui.session = "authenticated"
        /\ (ui.status = "unauthenticated" /\ ui' # ui)
           => ui'.route = "/admin/login"]_vars

\* C25 (as claimed): whatever its body, a PUT changes only the post its slug
\* resolves to: the row and the junction rows of every other post stay.
C25_PutChangesOnlyResolved ==
  \A slug \in Slugs, body \in PutBodies, emptyOk \in BOOLEAN :
    LET post == postService_findBySlug(DB, slug)
        a == SlugPUT(DB, post.id, body, now, emptyOk)
    IN post.found
       => \A q \in DOMAIN posts \ {post.id} :
            /\ q \in DOMAIN a.db.posts
            /\ a.db.posts[q] = posts[q]
            /\ RowsOf(a.db.post_categories, q) = RowsOf(post_categories, q)
            /\ RowsOf(a.db.post_tags, q) = RowsOf(post_tags, q)

\* C30 (as claimed): a PUT whose post was deleted between the resolution of
\* the slug and the update leaves no row and no junction row of that post,
\* and does not answer 200 with a post.
C30_PutAfterDelete ==
  \A r \in ReqIds :
    (reqs[r].method = "PUT" /\ reqs[r].pc = "done" /\ reqs[r].gone)
    => /\ reqs[r].id \notin DOMAIN posts
       /\ RowsOf(post_categories, reqs[r].id) = {}
       /\ RowsOf(post_tags, reqs[r].id) = {}
       /\ ~(reqs[r].status = 200 /\ reqs[r].carried # 0)
\* The categories and the tags a sample post lists, as junction rows of the
\* post with id pid.
ListedCategories(post, pid) ==
  {<<pid, SeedCategoryUuids[post.categories[i]]>> : i \in 1..Len(post.categories)}

ListedTags(post, pid) ==
  {<<pid, SeedTagUuids[post.tags[i]]>> : i \in 1..Len(post.tags)}

\* C24: on an empty database the seed returns with exactly 1 user (the
\* admin), 5 categories, 14 tags and 5 posts, every post published and
\* attached to exactly the categories and tags it lists; run where the admin
\* user is stored it returns without a change, so a second run leaves what
\* the first one left.
C24_SeedOnce ==
  LET r == seedDatabase(DB, nextId, now)
      again == seedDatabase(r.db, nextId + Len(seed_posts), now + 1)
  IN /\ DB = EmptyStore
        => /\ ~r.raised
           /\ Cardinality(DOMAIN r.db.users) = 1
           /\ \A u \in DOMAIN r.db.users : r.db.users[u].email = AdminEmail
           /\ Cardinality(DOMAIN r.db.categories) = 5
           /\ Cardinality(DOMAIN r.db.tags) = 14
           /\ Cardinality(DOMAIN r.db.posts) = 5
           /\ \A i \in 1..Len(seed_posts) :
                LET pid == nextId + i - 1
                IN /\ pid \in DOMAIN r.db.posts
                   /\ r.db.posts[pid].title = seed_posts[i].title
                   /\ r.db.posts[pid].published = 1
                   /\ RowsOf(r.db.post_categories, pid)
                        = ListedCategories(seed_posts[i], pid)
                   /\ RowsOf(r.db.post_tags, pid)
                        = ListedTags(seed_posts[i], pid)
           /\ ~again.raised
           /\ again.db = r.db
     /\ userService_findByEmail(DB, AdminEmail)
        => ~r.raised /\ r.db = DB

\* The seed has run a second time, on the database the first run filled, and
\* was skipped.
C24_Witness ==
  /\ last.op = "seedDatabase"
  /\ last.outcome = "skipped"
  /\ Cardinality(DOMAIN posts) = 5
  /\ Cardinality(DOMAIN tags) = 14
\* C26: whatever service calls have returned or raised, every post_categories
\* row names a stored post and a stored category, every post_tags row names
\* a stored post and a stored tag, and the author of every post is a stored
\* user.
C26_ReferentialIntegrity ==
  /\ \A r \in post_categories :
       r[1] \in DOMAIN posts /\ r[2] \in DOMAIN categories
  /\ \A r \in post_tags : r[1] \in DOMAIN posts /\ r[2] \in DOMAIN tags
  /\ \A p \in DOMAIN posts : posts[p].author_id \in DOMAIN users

\* An update has raised after a tag was deleted, and junction rows and posts
\* are stored.
C26_Witness ==
  /\ last.op = "update"
  /\ last.outcome = "raised"
  /\ tags = <<>>
  /\ post_categories # {}
  /\ posts # <<>>
\* The options the handler is to pass for the parameters of a request.
ExpectedOptions(params) ==
  (IF Has(params, "published") /\ params.published = "true"
   THEN [published |-> TRUE]
   ELSE IF Has(params, "published") /\ params.published = "false"
   THEN [published |-> FALSE] ELSE <<>>)
  @@ (IF Has(params, "featured") /\ params.featured = "true"
      THEN [featured |-> TRUE]
      ELSE IF Has(params, "featured") /\ params.featured = "false"
      THEN [featured |-> FALSE] ELSE <<>>)
  @@ (IF Has(params, "limit") /\ params.limit = "1" THEN [limit |-> 1]
      ELSE IF Has(params, "limit") /\ params.limit = "2" THEN [limit |-> 2]
      ELSE <<>>)
  @@ (IF Has(params, "offset") /\ params.offset = "1" THEN [offset |-> 1]
      ELSE <<>>)

\* C29: with a non-empty search parameter GET /api/posts answers what
\* postService.search returns for it, published posts only, whatever the
\* published, featured, limit and offset parameters are; with the search
\* absent or empty it answers what postService.findAll returns for the
\* parsed filters (500 when that call throws).
C29_SearchBeforeFilters ==
  \A params \in GetParams :
    LET a == PostsGET(DB, params)
    IN IF "search" \in DOMAIN params /\ params.search # <<>>
       THEN /\ a.status = 200
            /\ a.value = postService_search(DB, params.search).value
            /\ \A i \in 1..Len(a.value) : a.value[i].post.published = 1
            /\ a = PostsGET(DB, [search |-> params.search])
       ELSE LET r == postService_findAll(DB, ExpectedOptions(params))
            IN /\ r.raised => a.status = 500
               /\ ~r.raised => a.status = 200 /\ a.value = r.value

\* A search that also asked for unpublished featured posts has been
\* answered with a published post.
C29_Witness ==
  /\ last.op = "GET /api/posts"
  /\ "search" \in DOMAIN last.id
  /\ last.id.search # <<>>
  /\ "published" \in DOMAIN last.id
  /\ last.id.published = "false"
  /\ last.outcome.status = 200
  /\ Len(last.outcome.value) > 0
\* C27 (as claimed): when a timer set by an edit fires while the editor is
\* in edit mode with unsaved changes, one PUT is issued that carries the
\* title and the excerpt as last edited; and a successful response clears
\* hasUnsavedChanges and sets lastSaved.
C27_DebouncedAutoSave ==
  [][/\ (ui'.fired = ui.fired + 1 /\ ui.isEditMode /\ ui.hasUnsavedChanges)
        => /\ ui'.puts = ui.puts + 1
           /\ \E q \in ui'.inflight \ ui.inflight :
                q.title = ui.title /\ q.excerpt = ui.excerpt
     /\ (ui'.post # ui.post)
        => ~ui'.hasUnsavedChanges /\ ui'.lastSaved # 0]_vars

\* C28: at most one timer is pending, the one the ref holds; a timer that
\* fires is the last one set, so the edits of a burst share one firing; and
\* a PUT is issued by handleAutoSave in edit mode only, never from a timer
\* that fires after Cancel.
C28_OneTimerPending ==
  /\ [](/\ Cardinality(DOMAIN ui.timers) <= 1
        /\ \A t \in DOMAIN ui.timers : t = ui.ref)
  /\ [][/\ ui'.fired > ui.fired
           => /\ ui'.fired = ui.fired + 1
              /\ DOMAIN ui.timers = {ui.ref}
              /\ ui'.timers = <<>>
        /\ ui'.puts > ui.puts => ui.isEditMode]_vars

\* Two edits fell into one window, the editor was cancelled, and the one
\* timer left has fired, without a PUT.
C28_Witness ==
  /\ ui.view = "editor"
  /\ ui.nextTimer = 3
  /\ ui.fired = 1
  /\ ui.timers = <<>>
  /\ ~ui.isEditMode
  /\ ui.puts = 0
====
